---- MODULE Spec2Model ----
(***************************************************************************)
(* Medic-assistant: the Chat component of the web front end                *)
(* (frontend/src/components/Chat.jsx, current revision), its               *)
(* suggested-action inferencer, and the appointment tools of the server.   *)
(*                                                                         *)
(* A text is a sequence of tokens.  A token is a piece of text that the    *)
(* code's scans treat as a unit: a phrase (s), or a clock time as the      *)
(* time pattern sees it (digits of the hour, the two minute digits and     *)
(* the letters that follow).  Chips are strings, built as the code builds  *)
(* them.                                                                   *)
(***************************************************************************)
EXTENDS Integers, Sequences, FiniteSets, TLC

VARIABLES
    \* the inferencer on its own: inputs, result, applied or not
    pfRole, pfText, pfToday, pfOut, pfDone,
    \* the Chat component: props, useState fields, localStorage, the clock
    role, messages, input, isLoading, sessionId, suggestedActions,
    selectedDoctorId, storedSession, now,
    \* /chat requests whose fetch has not settled, in the order sent
    inflight,
    \* history: the last step taken, and the session id of the last
    \* successful response of the conversation
    lastEvent, lastOkSession,
    \* the server: the Appointment rows, the BookAppointment calls and the
    \* last CancelAppointment call
    appointments, calls, lastCancel,
    \* the Session Store: the sessions, the turns appended so far in call
    \* order, and the last call with its result
    sessions, appendLog, storeLast,
    \* the browser: localStorage, the Clerk session and the address
    simpleDoctorAuth, simplePatientAuth, clerkUser, pathname,
    \* App: the two localStorage entries as read when the page was loaded
    simpleDoctorData, simplePatientData,
    \* the sign-in page of the build and its doctor login form; loginTimer is
    \* the pending setTimeout of SimpleDoctorLogin with the values it closed over
    signInPage, doctorEmail, doctorPassword, doctorError, loginTimer,
    \* history: the last credential check and the last step of the browser
    lastLogin, appEvent,
    \* MainApp: the Clerk user it is given, its useState fields, the
    \* hoveredRole of its RoleSelector, and the last step taken
    mainUser, mainRole, showDashboard, hoveredRole, mainEvent,
    \* a doctor page (dashboard or appointments list): which one is mounted,
    \* its useState fields, and the clock of the browser
    docPage, selectedDoctor, pageAppointments, stats, loading, filter, clock,
    \* the GET /appointments requests that have not settled; the doctor
    \* whose response filled pageAppointments (0: none yet)
    fetches, shownFor,
    \* DoctorReportsPage: the rows the server answers with, and the page's
    \* stats and loading
    reportResponse, reportStats, reportLoading,
    \* DoctorDashboard: its useState fields selectedDoctor, stats and doctors
    \* (loaded or not), the pending setTimeout callbacks, and the GET /stats
    \* requests that have not settled
    dashSelected, dashStats, dashDoctorsLoaded, dashTimers, dashRequests

pfVars == <<pfRole, pfText, pfToday, pfOut, pfDone>>

chatVars == <<role, messages, input, isLoading, sessionId, suggestedActions,
              selectedDoctorId, storedSession, now, inflight,
              lastEvent, lastOkSession>>

bookVars == <<appointments, calls, lastCancel>>

storeVars == <<sessions, appendLog, storeLast>>

appVars == <<simpleDoctorAuth, simplePatientAuth, clerkUser, pathname,
             simpleDoctorData, simplePatientData,
             signInPage, doctorEmail, doctorPassword, doctorError, loginTimer,
             lastLogin, appEvent>>

mainVars == <<mainUser, mainRole, showDashboard, hoveredRole, mainEvent>>

pageVars == <<docPage, selectedDoctor, pageAppointments, stats, loading, filter,
              clock, fetches, shownFor>>

reportVars == <<reportResponse, reportStats, reportLoading>>

dashVars == <<dashSelected, dashStats, dashDoctorsLoaded, dashTimers, dashRequests>>

siteVars == <<storeVars, appVars, mainVars, pageVars, reportVars, dashVars>>

vars == <<pfVars, chatVars, bookVars, siteVars>>

-----------------------------------------------------------------------------
(* Bounds *)

MaxTextLen == 3
MaxDayOffset == 1
MaxMessages == 3
NumCalls == 2
MaxTurns == 3
MaxFetches == 2
MaxAppointments == 7
MaxPending == 2
MaxShortMessages == 1

-----------------------------------------------------------------------------
(* Texts *)

W(s) == [kind |-> "word", s |-> s, hour |-> 0, minute |-> "", suffix |-> ""]

\* "h:mm" followed, when suf is not empty, by a space and the letters suf
T(h, m, suf) == [kind |-> "time", s |-> "", hour |-> h, minute |-> m, suffix |-> suf]

Roles == {"patient", "doctor"}

\* String.prototype.toLowerCase on the phrases of the vocabulary
toLowerCase(s) ==
    CASE s = "Which date" -> "which date"
      [] OTHER -> s

Phrases ==
    { "which date", "what date", "when would you like",
      "available slots", "what time",
      "confirm", "is this correct",
      "which doctor", "like to see",
      "Which date", "hello", " " }

TimeTokens ==
    { T(14, "00", ""), T(2, "00", "PM"), T(9, "30", "am"),
      T(0, "15", ""), T(10, "30", "hrs"), T(13, "30", "PM") }

Vocabulary == { W(s) : s \in Phrases } \cup TimeTokens

TextsOfLen(n) == [1..n -> Vocabulary]

Texts == UNION { TextsOfLen(n) : n \in 0..MaxTextLen }

\* An optional string of JavaScript: undefined, or a text
Undefined == [def |-> FALSE, val |-> <<>>]

Str(t) == [def |-> TRUE, val |-> t]

IsSpace(tok) == tok.kind = "word" /\ tok.s = " "

\* truthiness of (x && x.trim()): a defined text with a non-blank token
NonBlank(x) == x.def /\ \E i \in 1..Len(x.val) : ~IsSpace(x.val[i])

\* truthiness of x itself: defined and not the empty string
Truthy(x) == x.def /\ x.val # <<>>

\* lowerContent.includes(p) for a lower-case phrase p
includes(text, p) ==
    \E i \in 1..Len(text) : text[i].kind = "word" /\ toLowerCase(text[i].s) = p

-----------------------------------------------------------------------------
(* Dates: the local calendar date of a JavaScript Date *)

IsLeap(y) == (y % 4 = 0 /\ y % 100 # 0) \/ y % 400 = 0

DaysInMonth(y, m) ==
    CASE m = 1 -> IF IsLeap(y) THEN 29 ELSE 28
      [] m \in {3, 5, 8, 10} -> 30
      [] OTHER -> 31

\* Date.prototype.setDate(d) with d possibly past the end of the month
RECURSIVE setDate(_, _)
setDate(date, d) ==
    IF d <= DaysInMonth(date.year, date.month)
    THEN [date EXCEPT !.day = d]
    ELSE setDate([year |-> IF date.month = 11 THEN date.year + 1 ELSE date.year,
                  month |-> IF date.month = 11 THEN 0 ELSE date.month + 1,
                  day |-> 1],
                 d - DaysInMonth(date.year, date.month))

RECURSIVE DaysBeforeMonth(_, _)
DaysBeforeMonth(y, m) ==
    IF m = 0 THEN 0 ELSE DaysBeforeMonth(y, m - 1) + DaysInMonth(y, m - 1)

RECURSIVE DaysBeforeYear(_)
DaysBeforeYear(y) ==
    IF y <= 2024 THEN 0
    ELSE DaysBeforeYear(y - 1) + (IF IsLeap(y - 1) THEN 366 ELSE 365)

\* Date.prototype.getDay: 0 is Sunday; 1 January 2024 was a Monday
getDay(date) ==
    (1 + DaysBeforeYear(date.year) + DaysBeforeMonth(date.year, date.month)
       + date.day - 1) % 7

DayNames == <<"Sunday", "Monday", "Tuesday", "Wednesday", "Thursday", "Friday", "Saturday">>

MonthNames == <<"Jan", "Feb", "Mar", "Apr", "May", "Jun", "Jul", "Aug", "Sep", "Oct", "Nov", "Dec">>

formatDate(date) ==
    DayNames[getDay(date) + 1] \o ", " \o MonthNames[date.month + 1]
        \o " " \o ToString(date.day)

getNextTwoDays(today) ==
    LET tomorrow == setDate(today, today.day + 1)
        dayAfter == setDate(today, today.day + 2)
    IN  << [label |-> "Today (" \o formatDate(today) \o ")"],
           [label |-> "Tomorrow (" \o formatDate(tomorrow) \o ")"],
           [label |-> formatDate(dayAfter)] >>

BaseDates ==
    { [year |-> 2024, month |-> 1, day |-> 28],
      [year |-> 2025, month |-> 1, day |-> 27],
      [year |-> 2025, month |-> 11, day |-> 30] }

Dates == { setDate(b, b.day + k) : b \in BaseDates, k \in 0..MaxDayOffset }

-----------------------------------------------------------------------------
(* Suggested-action inferencer *)

\* the optional third group of the time pattern: (AM|PM|am|pm)?
Meridiem(tok) == IF tok.suffix \in {"AM", "PM", "am", "pm"} THEN tok.suffix ELSE ""

toUpperCase(mer) ==
    CASE mer = "am" -> "AM"
      [] mer = "pm" -> "PM"
      [] OTHER -> mer

\* the body of matches.forEach: the chip of one match
SlotOfMatch(tok) ==
    LET meridiem == Meridiem(tok)
        hour == tok.hour
    IN  IF meridiem = ""
        THEN [hour |-> IF hour > 12 THEN hour - 12
                       ELSE IF hour = 0 THEN 12 ELSE hour,
              minute |-> tok.minute,
              meridiem |-> IF hour >= 12 THEN "PM" ELSE "AM"]
        ELSE [hour |-> hour, minute |-> tok.minute, meridiem |-> toUpperCase(meridiem)]

SlotLabel(slot) ==
    ToString(slot.hour) \o ":" \o slot.minute \o " " \o slot.meridiem

InSeq(x, seq) == \E i \in 1..Len(seq) : seq[i] = x

\* uniqueTimes.add over the matches in text order, then Array.from
RECURSIVE AddUnique(_, _)
AddUnique(acc, labels) ==
    IF labels = <<>> THEN acc
    ELSE AddUnique(IF InSeq(Head(labels), acc) THEN acc ELSE Append(acc, Head(labels)),
                   Tail(labels))

IsTimeTok(tok) == tok.kind = "time"

\* the slots collected in an array, without the Set
extractNoSet(text) ==
    LET matches == SelectSeq(text, IsTimeTok)
    IN  [i \in 1..Len(matches) |-> SlotLabel(SlotOfMatch(matches[i]))]

extractTimeSlots(text) ==
    LET matches == SelectSeq(text, IsTimeTok)
    IN  AddUnique(<<>>, [i \in 1..Len(matches) |-> SlotLabel(SlotOfMatch(matches[i]))])

DefaultSlots == <<"9:00 AM", "10:00 AM", "2:00 PM">>

DoctorMenu ==
    <<"Today's Schedule", "Tomorrow's Schedule", "Day After Tomorrow",
      "Weekly Report", "Patient Stats">>

ConfirmChips == <<"Yes, confirm", "No, cancel">>

DoctorChips == <<"Dr. Mohit Adoni", "Dr. Sarah Johnson", "Dr. Michael Chen">>

\* the roster of the component; name is display, a space and (speciality)
doctors ==
    << [id |-> 1, display |-> "Dr. Sarah Johnson", speciality |-> "General"],
       [id |-> 2, display |-> "Dr. Michael Chen", speciality |-> "Cardiology"],
       [id |-> 3, display |-> "Dr. Emily Williams", speciality |-> "Dermatology"],
       [id |-> 4, display |-> "Dr. James Brown", speciality |-> "Neurology"],
       [id |-> 5, display |-> "Dr. Mohit Adoni", speciality |-> "General"] >>

DoctorName(d) == d.display \o " (" \o d.speciality \o ")"

AsksDate(text) ==
    includes(text, "which date") \/ includes(text, "what date")
        \/ includes(text, "when would you like")

AsksTime(text) == includes(text, "available slots") \/ includes(text, "what time")

AsksConfirm(text) == includes(text, "confirm") \/ includes(text, "is this correct")

AsksDoctor(text) == includes(text, "which doctor") \/ includes(text, "like to see")

DateLabels(today) ==
    LET dates == getNextTwoDays(today)
    IN  [i \in 1..Len(dates) |-> dates[i].label]

TimeChips(text) ==
    LET extractedSlots == extractTimeSlots(text)
    IN  IF Len(extractedSlots) > 0 THEN extractedSlots ELSE DefaultSlots

\* the rules with the confirmation rule tried before the date rule
parseConfirmFirst(response, r, today) ==
    IF ~Truthy(response) THEN <<>>
    ELSE LET content == response.val IN
         IF r = "doctor" THEN DoctorMenu
         ELSE IF AsksConfirm(content) THEN ConfirmChips
         ELSE IF AsksDate(content) THEN DateLabels(today)
         ELSE IF AsksTime(content) THEN TimeChips(content)
         ELSE IF AsksDoctor(content) THEN DoctorChips
         ELSE <<>>

parseSuggestedActions(response, r, today) ==
    IF ~Truthy(response) THEN <<>>
    ELSE LET content == response.val IN
         IF r = "doctor" THEN DoctorMenu
         ELSE IF AsksDate(content) THEN DateLabels(today)
         ELSE IF AsksTime(content) THEN TimeChips(content)
         ELSE IF AsksConfirm(content) THEN ConfirmChips
         ELSE IF AsksDoctor(content) THEN DoctorChips
         ELSE <<>>

Responses == { Str(t) : t \in Texts } \cup {Undefined}

-----------------------------------------------------------------------------
(* The Chat component *)

\* a value that is null or a number
Null == [isNull |-> TRUE, n |-> 0]

Num(n) == [isNull |-> FALSE, n |-> n]

\* the session id null of JavaScript; the ids of the server are other strings
NullSession == "null"

SessionIds == {"s1", "s2"}

INITIAL_ACTIONS ==
    <<"Book Appointment", "Check Availability", "View My Appointments", "Cancel Appointment">>

DoctorInitialChips == <<"Today's Schedule", "Weekly Report", "Patient Stats">>

PatientLoadChips == <<"Book Appointment", "Check Availability">>

FallbackText ==
    <<W("I'm still processing that. Please try again in a moment or rephrase your request.")>>

\* the network error text, in its three sentences
NetworkErrorText ==
    << W("Can't connect to the server."),
       W(" Start the backend in a terminal: from project root run ./start_backend.sh (or: cd backend && source ../venv/bin/activate && uvicorn main:app --reload --port 8000),"),
       W(" then try again.") >>

\* the label that opens every error turn (a cross mark and a space)
ErrorLabel == "[x] "

\* what the user can have in the input box
Inputs == {"", " ", "hi"}

\* input.trim() is not the empty string
TrimTruthy(str) == str \notin {"", " "}

\* the replies of the server's /chat that the model draws from
ChatReplies ==
    { Undefined, Str(<<>>), Str(<<W(" ")>>),
      Str(<<W("Which date"), W("hello")>>),
      Str(<<W("{"), W("hello"), W("}")>>) }

\* suggested_actions of a reply: absent, empty or a list
NoActions == [def |-> FALSE, val |-> <<>>]

ReplyActions == { NoActions, [def |-> TRUE, val |-> <<>>],
                  [def |-> TRUE, val |-> <<"View My Appointments">>] }

Datas ==
    [response : ChatReplies, session_id : SessionIds, suggested_actions : ReplyActions]

NoData == [response |-> Undefined, session_id |-> NullSession, suggested_actions |-> NoActions]

Statuses == {500}

\* how a fetch can settle: 2xx with a JSON body, 2xx with a body that is not
\* JSON, another status with a body that text() reads or fails to read, or a
\* rejection
Outcomes ==
    { [kind |-> "ok", status |-> 200, bodyReadable |-> TRUE, data |-> d] : d \in Datas }
    \cup { [kind |-> "badjson", status |-> 200, bodyReadable |-> TRUE, data |-> NoData] }
    \cup { [kind |-> "status", status |-> st, bodyReadable |-> b, data |-> NoData] :
              st \in Statuses, b \in BOOLEAN }
    \cup { [kind |-> "reject", status |-> 0, bodyReadable |-> FALSE, data |-> NoData] }

\* the error that reaches the catch block
ThrownError(o) ==
    CASE o.kind = "reject" -> [name |-> "TypeError", message |-> "Failed to fetch"]
      [] o.kind = "badjson" -> [name |-> "SyntaxError", message |-> "Unexpected token < in JSON at position 0"]
      [] o.kind = "status" /\ ~o.bodyReadable -> [name |-> "TypeError", message |-> "network error"]
      [] OTHER -> [name |-> "Error", message |-> "Backend returned " \o ToString(o.status)]

\* every failure reported as a network failure
ErrorContentAllNetwork(error) == <<W(ErrorLabel)>> \o NetworkErrorText

ErrorContent(error) ==
    LET isNetworkError == error.message = "Failed to fetch" \/ error.name = "TypeError"
        content == IF isNetworkError THEN NetworkErrorText
                   ELSE <<W("Something went wrong: "), W(error.message), W(". "), W("Try again.")>>
    IN  <<W(ErrorLabel)>> \o content

\* content of the assistant turn of a 2xx reply, without the trim
ReplyContentNoTrim(data) ==
    IF Truthy(data.response) THEN data.response.val ELSE FallbackText

\* content of the assistant turn of a 2xx reply
ReplyContent(data) ==
    IF NonBlank(data.response) THEN data.response.val ELSE FallbackText

RoleChips(r) == IF r = "doctor" THEN DoctorInitialChips ELSE INITIAL_ACTIONS

LoadChips(r) == IF r = "doctor" THEN DoctorInitialChips ELSE PatientLoadChips

\* a step as the history keeps it: its kind and how the fetch settled (the
\* reply reduced to whether it had content)
Event(kind, outcome) ==
    [kind |-> kind,
     outcome |-> [kind |-> outcome.kind, status |-> outcome.status,
                  bodyReadable |-> outcome.bodyReadable,
                  hasContent |-> NonBlank(outcome.data.response)]]

NoOutcome == [kind |-> "none", status |-> 0, bodyReadable |-> FALSE, data |-> NoData]

\* the days the chat is run on
ChatDates == { [year |-> 2025, month |-> 11, day |-> 30] }

ChatInit ==
    /\ role \in Roles
    /\ messages = <<>>
    /\ input = ""
    /\ isLoading = FALSE
    /\ sessionId = NullSession
    /\ suggestedActions = LoadChips(role)
    /\ selectedDoctorId = Null
    /\ storedSession = NullSession
    /\ now \in ChatDates
    /\ inflight = <<>>
    /\ lastEvent = Event("load", NoOutcome)
    /\ lastOkSession = NullSession

\* onChange of the input box; the box is disabled while isLoading
TypeInput(v) ==
    /\ ~isLoading
    /\ v # input
    /\ input' = v
    /\ lastEvent' = Event("type", NoOutcome)
    /\ UNCHANGED <<role, messages, isLoading, sessionId, suggestedActions,
                   selectedDoctorId, storedSession, now, inflight, lastOkSession>>

\* the body without the session held
RequestBodyNoSession(messageText) ==
    [message |-> messageText, session_id |-> NullSession,
     role |-> role, doctor_id |-> selectedDoctorId]

\* the JSON body of the request (user_id and user_email are props that
\* never change and are left out)
RequestBody(messageText) ==
    [message |-> messageText, session_id |-> sessionId,
     role |-> role, doctor_id |-> selectedDoctorId]

\* the part of sendMessage before the await
sendMessage(messageText) ==
    LET req == RequestBody(messageText)
    IN  /\ Len(messages) < MaxMessages
        /\ messages' = Append(messages, [role |-> "user", content |-> <<W(messageText)>>])
        /\ input' = ""
        /\ isLoading' = TRUE
        /\ suggestedActions' = <<>>
        /\ inflight' = Append(inflight, req)
        /\ lastEvent' = Event("send", NoOutcome)
        /\ UNCHANGED <<role, sessionId, selectedDoctorId, storedSession, now,
                       lastOkSession>>

\* the form's submit; the button is disabled while isLoading or input is blank
handleSubmit ==
    /\ ~isLoading
    /\ TrimTruthy(input)
    /\ sendMessage(input)

\* the chips clickable also while a request is in flight
handleQuickActionWhileLoading(i) ==
    /\ i \in 1..Len(suggestedActions)
    /\ sendMessage(suggestedActions[i])

\* click on chip i; the chips are rendered only while not isLoading
handleQuickAction(i) ==
    /\ ~isLoading
    /\ i \in 1..Len(suggestedActions)
    /\ sendMessage(suggestedActions[i])

\* the chips always inferred from the text
ReplyChipsLocalOnly(data, r) == parseSuggestedActions(data.response, r, now)

\* the chips of a 2xx reply: the server's list when it has entries, else the
\* inferencer on the text, with the role of the render that sent the request
ReplyChips(data, r) ==
    IF data.suggested_actions.def /\ Len(data.suggested_actions.val) > 0
    THEN data.suggested_actions.val
    ELSE parseSuggestedActions(data.response, r, now)

RemoveAt(seq, i) == [j \in 1..(Len(seq) - 1) |-> IF j < i THEN seq[j] ELSE seq[j + 1]]

\* the part of sendMessage after the await, response.ok
ReceiveOk(i, o) ==
    LET req == inflight[i]
        data == o.data
    IN  /\ o.kind = "ok"
        /\ messages' = Append(messages, [role |-> "assistant", content |-> ReplyContent(data)])
        /\ sessionId' = data.session_id
        /\ storedSession' = data.session_id
        /\ suggestedActions' = ReplyChips(data, req.role)
        /\ isLoading' = FALSE
        /\ inflight' = RemoveAt(inflight, i)
        /\ lastEvent' = Event("ok", o)
        /\ lastOkSession' = data.session_id
        /\ UNCHANGED <<role, input, selectedDoctorId, now>>

\* the error turn put after the messages of the render that sent the
\* request, which did not have the user turn yet
FailAppendStale(error) ==
    Append(SubSeq(messages, 1, Len(messages) - 1),
           [role |-> "assistant", content |-> ErrorContent(error)])

FailAppend(error) ==
    Append(messages, [role |-> "assistant", content |-> ErrorContent(error)])

\* the catch block without the finally block
ReceiveFailNoFinally(i, o) ==
    /\ o.kind # "ok"
    /\ messages' = FailAppend(ThrownError(o))
    /\ inflight' = RemoveAt(inflight, i)
    /\ lastEvent' = Event("fail", o)
    /\ UNCHANGED <<role, input, isLoading, sessionId, suggestedActions, selectedDoctorId,
                   storedSession, now, lastOkSession>>

\* the part of sendMessage after the await, catch and finally
ReceiveFail(i, o) ==
    LET req == inflight[i]
    IN  /\ o.kind # "ok"
        /\ messages' = FailAppend(ThrownError(o))
        /\ isLoading' = FALSE
        /\ inflight' = RemoveAt(inflight, i)
        /\ lastEvent' = Event("fail", o)
        /\ UNCHANGED <<role, input, sessionId, suggestedActions, selectedDoctorId,
                       storedSession, now, lastOkSession>>

clearChat ==
    /\ messages' = <<>>
    /\ sessionId' = NullSession
    /\ suggestedActions' = RoleChips(role)
    /\ storedSession' = NullSession
    /\ lastEvent' = Event("clear", NoOutcome)
    /\ lastOkSession' = NullSession
    /\ UNCHANGED <<role, input, isLoading, selectedDoctorId, now, inflight>>

\* the role prop changes and the effect on [role] runs loadChat
RoleChange(r) ==
    /\ r # role
    /\ role' = r
    /\ sessionId' = NullSession
    /\ messages' = <<>>
    /\ suggestedActions' = LoadChips(r)
    /\ lastEvent' = Event("role", NoOutcome)
    /\ lastOkSession' = NullSession
    /\ UNCHANGED <<input, isLoading, selectedDoctorId, storedSession, now, inflight>>

\* the value the select shows: selectedDoctorId || ''
SelectValue == IF selectedDoctorId.isNull \/ selectedDoctorId.n = 0 THEN 0 ELSE selectedDoctorId.n

DoctorById(id) ==
    IF \E i \in 1..Len(doctors) : doctors[i].id = id
    THEN DoctorName(doctors[CHOOSE i \in 1..Len(doctors) : doctors[i].id = id])
    ELSE "undefined"

\* onChange of the "Viewing as" select, shown in doctor role; v = 0 is the
\* option with value '' (Number('') is 0)
SelectDoctor(v) ==
    /\ role = "doctor"
    /\ v # SelectValue
    /\ Len(messages) < MaxMessages
    /\ selectedDoctorId' = Num(v)
    /\ messages' = Append(messages,
          [role |-> "assistant",
           content |-> <<W("Switched context to " \o DoctorById(v) \o ". How can I help?")>>])
    /\ lastEvent' = Event("select", NoOutcome)
    /\ UNCHANGED <<role, input, isLoading, sessionId, suggestedActions, storedSession,
                   now, inflight, lastOkSession>>

\* the options of the select that the user picks: '' and two doctors
DoctorChoices == {0, 1, 5}

\* the message render filter: tool turns and internal artifacts are not shown
Shown(msg) ==
    /\ msg.role # "tool"
    /\ ~( \/ \E i \in 1..Len(msg.content) : msg.content[i] = W("(function=")
          \/ LET c == SelectSeq(msg.content, LAMBDA tok : ~IsSpace(tok))
             IN  Len(c) > 0 /\ c[1] = W("{") /\ c[Len(c)] = W("}") )

-----------------------------------------------------------------------------
(* The appointment tools of the server *)

DoctorIds == {5}

BookDates == {"2025-06-10"}

BookTimes == {"09:00", "09:30"}

Slots == [doctor_id : DoctorIds, date : BookDates, time : BookTimes]

NewStatuses == {"pending", "confirmed"}

SlotOf(row) == [doctor_id |-> row.doctor_id, date |-> row.date, time |-> row.time]

\* a non-cancelled Appointment row holds the slot
SlotTaken(slot) ==
    \E i \in 1..Len(appointments) :
        SlotOf(appointments[i]) = slot /\ appointments[i].status # "cancelled"

\* an insert that checks nothing
InsertUnchecked(slot) == TRUE

\* the uniqueness constraint on (doctor_id, date, time) among non-cancelled
\* rows, checked at insert time: the insert goes through or not
InsertAllowed(slot) == ~SlotTaken(slot)

NoSlot == [doctor_id |-> 0, date |-> "", time |-> ""]

IdleCall == [pc |-> "idle", slot |-> NoSlot, result |-> "none"]

\* a BookAppointment call arrives
BookStart(c, slot) ==
    /\ calls[c].pc = "idle"
    /\ calls' = [calls EXCEPT ![c] = [pc |-> "validate", slot |-> slot, result |-> "none"]]
    /\ UNCHANGED <<appointments, lastCancel>>

\* the call re-validates that the slot is still free
BookValidate(c) ==
    /\ calls[c].pc = "validate"
    /\ calls' = [calls EXCEPT ![c] =
                    IF SlotTaken(calls[c].slot)
                    THEN [@ EXCEPT !.pc = "done", !.result = "SlotTaken"]
                    ELSE [@ EXCEPT !.pc = "insert"]]
    /\ UNCHANGED <<appointments, lastCancel>>

\* the call inserts the row; the loser of a race gets SlotTaken
BookInsert(c, st) ==
    /\ calls[c].pc = "insert"
    /\ IF InsertAllowed(calls[c].slot)
       THEN /\ appointments' = Append(appointments,
                    [doctor_id |-> calls[c].slot.doctor_id, date |-> calls[c].slot.date,
                     time |-> calls[c].slot.time, status |-> st])
            /\ calls' = [calls EXCEPT ![c] = [@ EXCEPT !.pc = "done", !.result = "ok"]]
       ELSE /\ appointments' = appointments
            /\ calls' = [calls EXCEPT ![c] = [@ EXCEPT !.pc = "done", !.result = "SlotTaken"]]
    /\ UNCHANGED lastCancel

\* a cancel that puts a cancelled appointment back to confirmed
CancelToggle(status) == IF status = "cancelled" THEN "confirmed" ELSE "cancelled"

\* the status a CancelAppointment leaves
CancelStatus(status) == "cancelled"

\* CancelAppointment(id): NotFound for an unknown id, AlreadyCancelled for a
\* cancelled appointment, else the status becomes cancelled
CancelAppointment(id) ==
    /\ lastCancel' = [id |-> id,
                      result |-> IF id \notin 1..Len(appointments) THEN "NotFound"
                                 ELSE IF appointments[id].status = "cancelled"
                                      THEN "AlreadyCancelled" ELSE "ok"]
    /\ appointments' = IF id \in 1..Len(appointments)
                       THEN [appointments EXCEPT ![id].status = CancelStatus(@)]
                       ELSE appointments
    /\ UNCHANGED calls

-----------------------------------------------------------------------------
(* The Session Store of the server *)

TurnRoles == {"user", "assistant"}

TurnContents == {"a", "b"}

Turns == [role : TurnRoles, content : TurnContents]

NoSession == [exists |-> FALSE, turns |-> <<>>]

NoStoreCall == [op |-> "none", sid |-> "null", result |-> "none", history |-> <<>>]

\* append writes the turn at the head of the history
TurnsPrepended(turns, turn) == <<turn>> \o turns

\* the history of a session after one more turn
TurnsAppended(turns, turn) == Append(turns, turn)

\* create(): a new session id, empty history
StoreCreate(sid) ==
    /\ ~sessions[sid].exists
    /\ sessions' = [sessions EXCEPT ![sid] = [exists |-> TRUE, turns |-> <<>>]]
    /\ storeLast' = [op |-> "create", sid |-> sid, result |-> "ok", history |-> <<>>]
    /\ UNCHANGED appendLog

\* append(session_id, turn): NotFound for an unknown session id
StoreAppend(sid, turn) ==
    /\ Len(appendLog) < MaxTurns
    /\ IF sessions[sid].exists
       THEN /\ sessions' = [sessions EXCEPT
                               ![sid].turns = TurnsAppended(sessions[sid].turns, turn)]
            /\ appendLog' = Append(appendLog, [sid |-> sid, turn |-> turn])
            /\ storeLast' = [op |-> "append", sid |-> sid, result |-> "ok",
                             history |-> <<>>]
       ELSE /\ storeLast' = [op |-> "append", sid |-> sid, result |-> "NotFound",
                             history |-> <<>>]
            /\ UNCHANGED <<sessions, appendLog>>

\* get_history(session_id): the full ordered turn sequence
StoreGetHistory(sid) ==
    /\ sessions[sid].exists
    /\ storeLast' = [op |-> "get_history", sid |-> sid, result |-> "ok",
                     history |-> sessions[sid].turns]
    /\ UNCHANGED <<sessions, appendLog>>

-----------------------------------------------------------------------------
(* The App router and the doctor login *)

\* A typed text: the text trimmed and in lower case (base), whether blanks
\* surround it (pad) and whether it has capital letters (caps).
Typed(base, pad, caps) == [base |-> base, pad |-> pad, caps |-> caps]

trim(t) == [t EXCEPT !.pad = FALSE]

emailToLowerCase(t) == [t EXCEPT !.caps = FALSE]

Empty == Typed("", FALSE, FALSE)

\* table[t] is defined: the typed text is, letter for letter, a key
HasKey(table, t) == ~t.pad /\ ~t.caps /\ t.base \in DOMAIN table

validDoctors ==
    ("sarah@clinic.com" :> [id |-> 1, name |-> "Dr. Sarah Johnson"]) @@
    ("michael@clinic.com" :> [id |-> 2, name |-> "Dr. Michael Chen"]) @@
    ("emily@clinic.com" :> [id |-> 3, name |-> "Dr. Emily Williams"]) @@
    ("james@clinic.com" :> [id |-> 4, name |-> "Dr. James Brown"]) @@
    ("adonimohit@gmail.com" :> [id |-> 5, name |-> "Dr. Mohit Adoni"]) @@
    ("doctor@clinic.com" :> [id |-> 5, name |-> "Dr. Mohit Adoni"]) @@
    ("momoochan.ofc@gmail.com" :> [id |-> 5, name |-> "Dr. Mohit Adoni"])

DOCTOR_CREDENTIALS ==
    ("doctor12345@gmail.com" :>
        [password |-> "doctor", doctorId |-> 5, name |-> "Dr. Mohit Adoni"]) @@
    ("adonimohit@gmail.com" :>
        [password |-> "doctor", doctorId |-> 5, name |-> "Dr. Mohit Adoni"])

\* what the user types into the two fields
EmailInputs ==
    {Typed("doctor@clinic.com", FALSE, FALSE), Typed("doctor@clinic.com", TRUE, TRUE),
     Typed("sarah@clinic.com", FALSE, FALSE), Typed("doctor12345@gmail.com", FALSE, FALSE),
     Typed("nobody@clinic.com", FALSE, FALSE)}

PasswordInputs ==
    {Typed("password", FALSE, FALSE), Typed("password", TRUE, FALSE),
     Typed("password", FALSE, TRUE), Typed("doctor", FALSE, FALSE)}

\* a localStorage entry: absent, or the JSON of the doctor data
NoAuth == [present |-> FALSE, email |-> "", doctorId |-> 0, name |-> "", role |-> ""]

DoctorData(e, id, nm, rl) ==
    [present |-> TRUE, email |-> e, doctorId |-> id, name |-> nm, role |-> rl]

SignedOutUser == [signedIn |-> FALSE, email |-> ""]

ClerkEmails == {"doctor12345@gmail.com", "adonimohit@gmail.com", "patient@example.com"}

NoTimer == [pending |-> FALSE, email |-> Empty, password |-> Empty]

NoLogin == [kind |-> "none", email |-> Empty, password |-> Empty]

\* a pathname is the sequence of its segments: <<>> is "/"
Paths ==
    {<<>>, <<"sign-in">>, <<"sign-up">>, <<"patient">>, <<"chat">>,
     <<"doctor">>, <<"doctor", "dashboard">>, <<"doctor", "chat">>,
     <<"doctor", "appointments">>, <<"doctor", "reports">>,
     <<"doctor", "patient">>, <<"doctor", "doctor">>,
     <<"doctor", "doctor", "dashboard">>, <<"doctor", "doctor", "chat">>,
     <<"doctor", "doctor", "appointments">>, <<"doctor", "doctor", "reports">>}

\* what a <Routes> renders: an element of a page, or a <Navigate>
PageOf(name, id) == [kind |-> "page", page |-> name, doctorId |-> id, to |-> <<>>]

NavigateTo(p) == [kind |-> "navigate", page |-> "none", doctorId |-> 0, to |-> p]

\* every signed-in user may open the doctor routes
canAccessAnyone(userEmail) == TRUE

canAccessDoctor(userEmail) ==
    userEmail \in {"doctor12345@gmail.com", "adonimohit@gmail.com",
                   "doctor@clinic.com", "momoochan.ofc@gmail.com"}

MainAppRouterDoctorId == 5

\* The <Routes> of MainAppRouter.  It is rendered by the route "/doctor/*",
\* so its paths are matched against rest, the pathname after "/doctor".
MainAppRouter(rest, userEmail) ==
    IF rest = <<>>
    THEN IF canAccessDoctor(userEmail)
         THEN NavigateTo(<<"doctor">>)
         ELSE NavigateTo(<<"patient">>)
    ELSE IF rest = <<"patient">> THEN PageOf("PatientPage", 0)
    ELSE IF canAccessDoctor(userEmail) /\ rest \in {<<"doctor">>, <<"doctor", "dashboard">>}
    THEN PageOf("DoctorDashboardPage", MainAppRouterDoctorId)
    ELSE IF canAccessDoctor(userEmail) /\ rest = <<"doctor", "chat">>
    THEN PageOf("DoctorChatPage", 0)
    ELSE IF canAccessDoctor(userEmail) /\ rest = <<"doctor", "appointments">>
    THEN PageOf("DoctorAppointmentsPage", MainAppRouterDoctorId)
    ELSE IF canAccessDoctor(userEmail) /\ rest = <<"doctor", "reports">>
    THEN PageOf("DoctorReportsPage", MainAppRouterDoctorId)
    ELSE NavigateTo(<<>>)

\* what App renders at pathname p
AppRoutes(p) ==
    IF simpleDoctorData.present
    THEN IF p \in {<<>>, <<"doctor">>, <<"doctor", "dashboard">>}
         THEN PageOf("DoctorDashboardPage", simpleDoctorData.doctorId)
         ELSE IF p = <<"doctor", "chat">>
         THEN PageOf("SimpleDoctorChatPage", simpleDoctorData.doctorId)
         ELSE IF p = <<"doctor", "appointments">>
         THEN PageOf("DoctorAppointmentsPage", simpleDoctorData.doctorId)
         ELSE IF p = <<"doctor", "reports">>
         THEN PageOf("DoctorReportsPage", simpleDoctorData.doctorId)
         ELSE NavigateTo(<<"doctor">>)
    ELSE IF simplePatientData
    THEN IF p \in {<<>>, <<"patient">>}
         THEN PageOf("PatientPage", 0)
         ELSE NavigateTo(<<"patient">>)
    ELSE IF p # <<>> /\ p[1] = "sign-in" THEN PageOf(signInPage, 0)
    ELSE IF p # <<>> /\ p[1] = "sign-up" THEN PageOf("SignUpPage", 0)
    ELSE IF p = <<"patient">>
    THEN IF clerkUser.signedIn
         THEN PageOf("PatientPage", 0)
         ELSE NavigateTo(<<"sign-in">>)
    ELSE IF p # <<>> /\ p[1] = "doctor"
    THEN IF clerkUser.signedIn
         THEN MainAppRouter(Tail(p), clerkUser.email)
         ELSE NavigateTo(<<"sign-in">>)
    ELSE IF p = <<>>
    THEN IF clerkUser.signedIn
         THEN NavigateTo(<<"patient">>)
         ELSE NavigateTo(<<"sign-in">>)
    ELSE NavigateTo(<<"sign-in">>)

Rendered == AppRoutes(pathname)

\* the browser loads the document at p: App reads localStorage, every
\* component is mounted anew and pending timers are gone
Load(p) ==
    /\ pathname' = p
    /\ simpleDoctorData' = simpleDoctorAuth'
    /\ simplePatientData' = simplePatientAuth'
    /\ doctorEmail' = Empty
    /\ doctorPassword' = Empty
    /\ doctorError' = ""
    /\ loginTimer' = NoTimer

\* the user opens an address, or reloads
LoadPage(p) ==
    /\ UNCHANGED <<simpleDoctorAuth, simplePatientAuth, clerkUser, signInPage, lastLogin>>
    /\ Load(p)
    /\ appEvent' = "load"

\* the effect of a rendered <Navigate>
NavigateStep ==
    /\ Rendered.kind = "navigate"
    /\ pathname' = Rendered.to
    /\ appEvent' = "navigate"
    /\ UNCHANGED <<simpleDoctorAuth, simplePatientAuth, clerkUser, simpleDoctorData,
                   simplePatientData, signInPage, doctorEmail, doctorPassword,
                   doctorError, loginTimer, lastLogin>>

\* the effect of UnifiedLoginPage for a user who is signed in
AutoRedirect ==
    /\ Rendered.page = "UnifiedLoginPage"
    /\ clerkUser.signedIn
    /\ pathname' = IF clerkUser.email \in {"doctor12345@gmail.com", "adonimohit@gmail.com",
                                          "doctor@clinic.com"}
                   THEN <<"doctor", "dashboard">>
                   ELSE <<"patient">>
    /\ doctorEmail' = Empty
    /\ doctorPassword' = Empty
    /\ doctorError' = ""
    /\ appEvent' = "navigate"
    /\ UNCHANGED <<simpleDoctorAuth, simplePatientAuth, clerkUser, simpleDoctorData,
                   simplePatientData, signInPage, loginTimer, lastLogin>>

\* the tabs of the dashboard and its assistant button
DashboardLinks ==
    {<<"doctor", "dashboard">>, <<"doctor", "appointments">>, <<"doctor", "reports">>,
     <<"chat">>}

\* navigate(p) of a button of a doctor page
PageLink(p) ==
    /\ \/ Rendered.page = "DoctorDashboardPage" /\ p \in DashboardLinks
       \/ Rendered.page \in {"DoctorAppointmentsPage", "DoctorReportsPage"} /\ p = <<"doctor">>
    /\ pathname' = p
    /\ appEvent' = "navigate"
    /\ UNCHANGED <<simpleDoctorAuth, simplePatientAuth, clerkUser, simpleDoctorData,
                   simplePatientData, signInPage, doctorEmail, doctorPassword,
                   doctorError, loginTimer, lastLogin>>

LoginPages == {"UnifiedLoginPage", "SignInPage"}

setDoctorEmail(v) ==
    /\ Rendered.page \in LoginPages
    /\ doctorEmail' = v
    /\ appEvent' = "type"
    /\ UNCHANGED <<simpleDoctorAuth, simplePatientAuth, clerkUser, pathname,
                   simpleDoctorData, simplePatientData, signInPage, doctorPassword,
                   doctorError, loginTimer, lastLogin>>

setDoctorPassword(v) ==
    /\ Rendered.page \in LoginPages
    /\ doctorPassword' = v
    /\ appEvent' = "type"
    /\ UNCHANGED <<simpleDoctorAuth, simplePatientAuth, clerkUser, pathname,
                   simpleDoctorData, simplePatientData, signInPage, doctorEmail,
                   doctorError, loginTimer, lastLogin>>

\* the check of UnifiedLoginPage without the password
UnifiedCheckEmailOnly(e, p) == HasKey(validDoctors, emailToLowerCase(trim(e)))

\* validDoctors[normalizedEmail] && normalizedPassword === 'password'
UnifiedCheck(e, p) ==
    /\ HasKey(validDoctors, emailToLowerCase(trim(e)))
    /\ trim(p) = Typed("password", FALSE, FALSE)

\* submit of the doctor form of UnifiedLoginPage
handleDoctorLogin ==
    /\ Rendered.page = "UnifiedLoginPage"
    /\ LET normalizedEmail == emailToLowerCase(trim(doctorEmail))
       IN  IF UnifiedCheck(doctorEmail, doctorPassword)
           THEN /\ simpleDoctorAuth' =
                       DoctorData(normalizedEmail.base,
                                  validDoctors[normalizedEmail.base].id,
                                  validDoctors[normalizedEmail.base].name, "doctor")
                /\ UNCHANGED <<simplePatientAuth, clerkUser, signInPage>>
                /\ Load(<<"doctor", "dashboard">>)
                /\ lastLogin' = [kind |-> "ok", email |-> doctorEmail,
                                 password |-> doctorPassword]
           ELSE /\ doctorError' = "Invalid credentials. Try doctor@clinic.com / password"
                /\ lastLogin' = [kind |-> "failed", email |-> doctorEmail,
                                 password |-> doctorPassword]
                /\ UNCHANGED <<simpleDoctorAuth, simplePatientAuth, clerkUser, pathname,
                               simpleDoctorData, simplePatientData, signInPage,
                               doctorEmail, doctorPassword, loginTimer>>
    /\ appEvent' = "submit"

\* submit of SimpleDoctorLogin; the button is disabled while loading
handleLogin ==
    /\ Rendered.page = "SignInPage"
    /\ ~loginTimer.pending
    /\ doctorError' = ""
    /\ loginTimer' = [pending |-> TRUE, email |-> doctorEmail, password |-> doctorPassword]
    /\ appEvent' = "submit"
    /\ UNCHANGED <<simpleDoctorAuth, simplePatientAuth, clerkUser, pathname,
                   simpleDoctorData, simplePatientData, signInPage, doctorEmail,
                   doctorPassword, lastLogin>>

\* the check of SimpleDoctorLogin without the password
SimpleErrorEmailOnly(e, p) ==
    IF ~HasKey(DOCTOR_CREDENTIALS, e) THEN "Doctor account not found" ELSE ""

\* the error of the check of SimpleDoctorLogin, "" when it passes
SimpleError(e, p) ==
    IF ~HasKey(DOCTOR_CREDENTIALS, e) THEN "Doctor account not found"
    ELSE IF p # Typed(DOCTOR_CREDENTIALS[e.base].password, FALSE, FALSE)
    THEN "Incorrect password"
    ELSE ""

\* the timer of handleLogin fires; on success SignInPage's
\* handleDoctorLoginSuccess stores the data, navigates to "/" and reloads
LoginTimeout ==
    /\ loginTimer.pending
    /\ LET e == loginTimer.email
           p == loginTimer.password
       IN  IF SimpleError(e, p) # ""
           THEN /\ doctorError' = SimpleError(e, p)
                /\ loginTimer' = NoTimer
                /\ lastLogin' = [kind |-> "failed", email |-> e, password |-> p]
                /\ UNCHANGED <<simpleDoctorAuth, simplePatientAuth, clerkUser, pathname,
                               simpleDoctorData, simplePatientData, signInPage,
                               doctorEmail, doctorPassword>>
           ELSE /\ simpleDoctorAuth' =
                       DoctorData(e.base, DOCTOR_CREDENTIALS[e.base].doctorId,
                                  DOCTOR_CREDENTIALS[e.base].name, "")
                /\ UNCHANGED <<simplePatientAuth, clerkUser, signInPage>>
                /\ Load(<<>>)
                /\ lastLogin' = [kind |-> "ok", email |-> e, password |-> p]
    /\ appEvent' = "timeout"

\* the logout button of the dashboard and of the simple doctor's chat page
Logout ==
    /\ Rendered.page \in {"DoctorDashboardPage", "SimpleDoctorChatPage"}
    /\ simpleDoctorAuth' = NoAuth
    /\ UNCHANGED <<simplePatientAuth, clerkUser, signInPage, lastLogin>>
    /\ Load(<<"sign-in">>)
    /\ appEvent' = "logout"

\* Clerk: a session begins or ends
ClerkSignIn(e) ==
    /\ ~clerkUser.signedIn
    /\ clerkUser' = [signedIn |-> TRUE, email |-> e]
    /\ appEvent' = "clerk"
    /\ UNCHANGED <<simpleDoctorAuth, simplePatientAuth, pathname, simpleDoctorData,
                   simplePatientData, signInPage, doctorEmail, doctorPassword,
                   doctorError, loginTimer, lastLogin>>

ClerkSignOut ==
    /\ clerkUser.signedIn
    /\ clerkUser' = SignedOutUser
    /\ appEvent' = "clerk"
    /\ UNCHANGED <<simpleDoctorAuth, simplePatientAuth, pathname, simpleDoctorData,
                   simplePatientData, signInPage, doctorEmail, doctorPassword,
                   doctorError, loginTimer, lastLogin>>

-----------------------------------------------------------------------------
(* MainApp and its RoleSelector *)

DOCTOR_EMAIL == "adonimohit@gmail.com"

\* useUser() before Clerk has loaded the user
NoUser == [loaded |-> FALSE, email |-> "", metadataRole |-> ""]

MainEmails ==
    {"adonimohit@gmail.com", "doctor12345@gmail.com", "doctor@clinic.com",
     "momoochan.ofc@gmail.com", "sarah@clinic.com", "michael@clinic.com",
     "emily@clinic.com", "james@clinic.com", "patient@example.com",
     "nobody@clinic.com"}

\* unsafeMetadata.role of a user: missing, or any string the client wrote
MetadataRoles == {"", "patient", "doctor", "admin"}

MainUsers == [loaded : {TRUE}, email : MainEmails, metadataRole : MetadataRoles]

\* user?.unsafeMetadata?.role || 'patient'
userRole(u) == IF u.metadataRole # "" THEN u.metadataRole ELSE "patient"

\* the render of MainApp: if (!role && user) setRole(userRole)
AutoRole(r, u) == IF r = "null" /\ u.loaded THEN userRole(u) ELSE r

\* enabled of a role card of RoleSelector
RoleEnabled(id, userEmail) == id = "patient" \/ userEmail = DOCTOR_EMAIL

\* useUser() returns the signed-in user
UserLoaded(u) ==
    /\ ~mainUser.loaded
    /\ mainUser' = u
    /\ mainRole' = AutoRole(mainRole, u)
    /\ hoveredRole' = IF mainRole' = "null" THEN hoveredRole ELSE "null"
    /\ mainEvent' = "user"
    /\ UNCHANGED showDashboard

\* click on a role card; RoleSelector is rendered while role is null
onSelectRole(id) ==
    /\ mainRole = "null"
    /\ RoleEnabled(id, mainUser.email)
    /\ mainRole' = AutoRole(id, mainUser)
    /\ hoveredRole' = "null"
    /\ mainEvent' = "select"
    /\ UNCHANGED <<mainUser, showDashboard>>

\* onMouseEnter / onMouseLeave of a role card
setHoveredRole(h) ==
    /\ mainRole = "null"
    /\ hoveredRole' = h
    /\ mainEvent' = "hover"
    /\ UNCHANGED <<mainUser, mainRole, showDashboard>>

\* the "Switch Role" button of the header: setRole(null), and the render
\* that follows
SwitchRole ==
    /\ mainRole # "null"
    /\ ~(mainRole = "doctor" /\ showDashboard)
    /\ mainRole' = AutoRole("null", mainUser)
    /\ mainEvent' = "switch"
    /\ UNCHANGED <<mainUser, showDashboard, hoveredRole>>

\* the Dashboard button, shown in doctor role, and onBack of the dashboard
setShowDashboard(b) ==
    /\ mainRole = "doctor"
    /\ showDashboard = ~b
    /\ showDashboard' = b
    /\ mainEvent' = "dashboard"
    /\ UNCHANGED <<mainUser, mainRole, hoveredRole>>

\* the user signs out: <SignedIn> unmounts MainApp
MainSignOut ==
    /\ mainUser.loaded
    /\ mainUser' = NoUser
    /\ mainRole' = "null"
    /\ showDashboard' = FALSE
    /\ hoveredRole' = "null"
    /\ mainEvent' = "signout"

-----------------------------------------------------------------------------
(* The doctor pages: DoctorDashboardPage and DoctorAppointmentsPage *)

June(d) == [year |-> 2025, month |-> 5, day |-> d]

\* a < b for the strings YYYY-MM-DD of two dates
IsoLess(a, b) ==
    \/ a.year < b.year
    \/ a.year = b.year /\ a.month < b.month
    \/ a.year = b.year /\ a.month = b.month /\ a.day < b.day

\* The clock: the calendar date where the browser is, and by how many days
\* the UTC date differs from it at this time of day in this time zone.
Clocks == [date : {June(10), June(14)}, utcShift : {-1, 0, 1}]

\* new Date().toISOString().split('T')[0]: the UTC date
isoToday(c) == setDate(c.date, c.date.day + c.utcShift)

Apt(id, d, st) == [id |-> id, appointment_date |-> d, status |-> st]

\* the rows the server returns for a doctor
ServerAppointments(doctor_id) ==
    CASE doctor_id = 1 -> <<Apt(1, June(9), "confirmed"), Apt(2, June(10), "confirmed"),
                            Apt(3, June(11), "pending"), Apt(4, June(20), "confirmed")>>
      [] doctor_id = 5 -> <<Apt(5, June(10), "cancelled"), Apt(6, June(14), "confirmed"),
                            Apt(7, June(2), "completed")>>
      [] OTHER -> <<>>

\* the doctors of the dropdown that the user picks
PageDoctors == {1, 2, 5}

DocPages == {"dashboard", "appointments"}

Filters == {"all", "today", "upcoming", "past"}

\* how a fetch settles: ok with the rows, ok with a body without
\* appointments, a status outside 2xx, or a rejected fetch
FetchOutcomes == {"ok", "empty", "status", "reject"}

NoStats == [today |-> 0, thisWeek |-> 0, total |-> 0]

\* useEffect(() => fetchAppointments(), [selectedDoctor]), up to the await
fetchAppointments(doctor_id) ==
    /\ loading' = TRUE
    /\ fetches' = Append(fetches, [doctor_id |-> doctor_id])

\* onChange of the doctor dropdown, and the effect it triggers
setSelectedDoctor(doctor_id) ==
    /\ doctor_id # selectedDoctor
    /\ Len(fetches) < MaxFetches
    /\ selectedDoctor' = doctor_id
    /\ fetchAppointments(doctor_id)
    /\ UNCHANGED <<docPage, pageAppointments, stats, filter, clock, shownFor>>

\* the filter buttons of the appointments page
setFilter(f) ==
    /\ docPage = "appointments"
    /\ filter' = f
    /\ UNCHANGED <<docPage, selectedDoctor, pageAppointments, stats, loading, clock,
                   fetches, shownFor>>

\* the stats the dashboard computes from a response
statsOf(rows, today) ==
    [today |-> Cardinality({i \in 1..Len(rows) : rows[i].appointment_date = today}),
     thisWeek |-> Len(rows),
     total |-> Len(rows)]

\* the rest of fetchAppointments, for the fetch at position i
FetchSettles(i, o) ==
    /\ i \in 1..Len(fetches)
    /\ fetches' = RemoveAt(fetches, i)
    /\ loading' = FALSE
    /\ IF o \in {"ok", "empty"}
       THEN LET rows == IF o = "ok" THEN ServerAppointments(fetches[i].doctor_id)
                        ELSE <<>>
            IN  /\ pageAppointments' = rows
                /\ shownFor' = fetches[i].doctor_id
                /\ stats' = IF docPage = "dashboard"
                            THEN statsOf(rows, isoToday(clock))
                            ELSE stats
       ELSE UNCHANGED <<pageAppointments, shownFor, stats>>
    /\ UNCHANGED <<docPage, selectedDoctor, filter, clock>>

\* filterAppointments(): what the appointments page lists
filterAppointments ==
    LET today == isoToday(clock)
    IN  IF filter = "all" THEN pageAppointments
        ELSE IF filter = "today"
        THEN SelectSeq(pageAppointments, LAMBDA apt : apt.appointment_date = today)
        ELSE IF filter = "upcoming"
        THEN SelectSeq(pageAppointments,
                       LAMBDA apt : ~IsoLess(apt.appointment_date, today)
                                    /\ apt.status = "confirmed")
        ELSE IF filter = "past"
        THEN SelectSeq(pageAppointments, LAMBDA apt : IsoLess(apt.appointment_date, today))
        ELSE pageAppointments

-----------------------------------------------------------------------------
(* DoctorReportsPage: the Top Visit Reasons of fetchStats *)

\* reasons that patients give, named in the order in which a response first
\* mentions them
OrdinaryReasons == <<"Fever", "Cough", "Checkup", "Headache", "Rash">>

\* "" is a row without a reason (missing, null or empty: all falsy)
FreeReasons == {"", "Not specified"}

ReasonsSeen(rows) ==
    Cardinality({k \in 1..Len(OrdinaryReasons) :
                    \E i \in 1..Len(rows) : rows[i].reason = OrdinaryReasons[k]})

\* the reasons the next row can have: none, any reason seen so far, or
\* the first ordinary reason not seen yet
NextReasons(rows) ==
    FreeReasons
    \cup { OrdinaryReasons[k] : k \in { j \in 1..Len(OrdinaryReasons) : j <= ReasonsSeen(rows) + 1 } }

\* an appointment is booked with the doctor before the page asks: the
\* server has one more row to answer with
AppointmentBooked(r) ==
    /\ reportLoading
    /\ Len(reportResponse) < MaxAppointments
    /\ r \in NextReasons(reportResponse)
    /\ reportResponse' = Append(reportResponse, [reason |-> r])
    /\ UNCHANGED <<reportStats, reportLoading>>

\* apt.reason || 'Not specified'
ReasonOf(apt) == IF apt.reason = "" THEN "Not specified" ELSE apt.reason

\* Object.entries(reasonCounts): the keys in order of insertion, each with
\* the number of rows counted under it
reasonCounts(rows) ==
    LET keys == AddUnique(<<>>, [i \in 1..Len(rows) |-> ReasonOf(rows[i])])
    IN  [k \in 1..Len(keys) |->
            [reason |-> keys[k],
             count |-> Cardinality({i \in 1..Len(rows) : ReasonOf(rows[i]) = keys[k]})]]

\* .sort((a, b) => b[1] - a[1]): stable, larger counts first
RECURSIVE sortByCount(_, _)
sortByCount(entries, c) ==
    IF c = 0 THEN <<>>
    ELSE SelectSeq(entries, LAMBDA e : e.count = c) \o sortByCount(entries, c - 1)

TopReasonsShown == 5

\* the entries in insertion order, neither sorted nor cut
topReasonsUnsorted(rows) == reasonCounts(rows)

topReasons(rows) ==
    LET sorted == sortByCount(reasonCounts(rows), Len(rows))
    IN  SubSeq(sorted, 1, IF Len(sorted) < TopReasonsShown THEN Len(sorted)
                          ELSE TopReasonsShown)

NoReport == [isNull |-> TRUE, total |-> 0, topReasons |-> <<>>]

\* fetchStats from the response on: the total and the top reasons of the
\* rows (the other cards read the date and the status, which the rows of
\* this model do not carry); o is how the fetch settles
fetchStats(o) ==
    /\ reportLoading
    /\ reportLoading' = FALSE
    /\ reportStats' =
          IF o \in {"ok", "empty"}
          THEN LET rows == IF o = "ok" THEN reportResponse ELSE <<>>
               IN  [isNull |-> FALSE, total |-> Len(rows), topReasons |-> topReasons(rows)]
          ELSE reportStats
    /\ UNCHANGED reportResponse

-----------------------------------------------------------------------------
(* The DoctorDashboard component: doctor dropdown and stats cards *)

DashDoctors == {1, 2, 5}

\* how GET /stats settles: a body for the doctor, the error body of a
\* status outside 2xx (it is parsed and stored all the same), or a failure
StatsOutcomes == {"ok", "status", "reject"}

NoDashStats == [kind |-> "null", doctor_id |-> 0]

\* fetchStats of the render in which selectedDoctor was captured; chosen is
\* the doctor of the dropdown change that scheduled the call (0: the mount)
dashFetchStats(captured, chosen) ==
    dashRequests' = Append(dashRequests, [doctor_id |-> captured, chosen |-> chosen])

\* fetchDoctors settles: the dropdown gets its options
fetchDoctorsSettles ==
    /\ ~dashDoctorsLoaded
    /\ dashDoctorsLoaded' = TRUE
    /\ UNCHANGED <<dashSelected, dashStats, dashTimers, dashRequests>>

\* onChange of the select: setSelectedDoctor(d); setTimeout(fetchStats, 100)
\* with the fetchStats of the render that built this handler
dashOnChange(d) ==
    /\ dashDoctorsLoaded
    /\ d # dashSelected
    /\ Len(dashTimers) + Len(dashRequests) < MaxPending
    /\ dashSelected' = d
    /\ dashTimers' = Append(dashTimers, [captured |-> dashSelected, chosen |-> d])
    /\ UNCHANGED <<dashStats, dashDoctorsLoaded, dashRequests>>

\* the oldest timeout fires (equal delays fire in the order they were set)
dashTimeout ==
    /\ dashTimers # <<>>
    /\ dashFetchStats(Head(dashTimers).captured, Head(dashTimers).chosen)
    /\ dashTimers' = Tail(dashTimers)
    /\ UNCHANGED <<dashSelected, dashStats, dashDoctorsLoaded>>

\* the rest of fetchStats for the request at position i
dashStatsSettles(i, o) ==
    /\ i \in 1..Len(dashRequests)
    /\ dashRequests' = RemoveAt(dashRequests, i)
    /\ dashStats' =
          CASE o = "ok" -> [kind |-> "stats", doctor_id |-> dashRequests[i].doctor_id]
            [] o = "status" -> [kind |-> "error", doctor_id |-> 0]
            [] OTHER -> dashStats
    /\ UNCHANGED <<dashSelected, dashDoctorsLoaded, dashTimers>>

-----------------------------------------------------------------------------
(* The specifications *)

PfIdle ==
    /\ pfRole = "patient" /\ pfText = Undefined /\ pfOut = <<>> /\ pfDone = FALSE
    /\ pfToday = [year |-> 2024, month |-> 1, day |-> 28]

ChatIdle ==
    /\ role = "patient" /\ messages = <<>> /\ input = "" /\ isLoading = FALSE
    /\ sessionId = "null" /\ suggestedActions = <<>>
    /\ selectedDoctorId = [isNull |-> TRUE, n |-> 0]
    /\ storedSession = "null" /\ now = [year |-> 2024, month |-> 1, day |-> 28]
    /\ inflight = <<>> /\ lastOkSession = "null"
    /\ lastEvent = [kind |-> "none"]

BookIdle ==
    /\ appointments = <<>>
    /\ calls = [c \in 1..NumCalls |-> IdleCall]
    /\ lastCancel = [id |-> 0, result |-> "none"]

StoreIdle ==
    /\ sessions = [sid \in SessionIds |-> NoSession]
    /\ appendLog = <<>>
    /\ storeLast = NoStoreCall

AppIdle ==
    /\ simpleDoctorAuth = NoAuth /\ simplePatientAuth = FALSE
    /\ clerkUser = SignedOutUser /\ pathname = <<>>
    /\ simpleDoctorData = NoAuth /\ simplePatientData = FALSE
    /\ signInPage = "UnifiedLoginPage"
    /\ doctorEmail = Empty /\ doctorPassword = Empty /\ doctorError = ""
    /\ loginTimer = NoTimer /\ lastLogin = NoLogin /\ appEvent = "none"

MainIdle ==
    /\ mainUser = NoUser /\ mainRole = "null" /\ showDashboard = FALSE
    /\ hoveredRole = "null" /\ mainEvent = "none"

PageIdle ==
    /\ docPage = "dashboard" /\ selectedDoctor = 5 /\ pageAppointments = <<>>
    /\ stats = NoStats /\ loading = TRUE /\ filter = "all"
    /\ clock = [date |-> June(10), utcShift |-> 0]
    /\ fetches = <<>> /\ shownFor = 0

ReportIdle == reportResponse = <<>> /\ reportStats = NoReport /\ reportLoading = TRUE

DashIdle ==
    /\ dashSelected = 1 /\ dashStats = NoDashStats /\ dashDoctorsLoaded = FALSE
    /\ dashTimers = <<>> /\ dashRequests = <<>>

SiteIdle == StoreIdle /\ AppIdle /\ MainIdle /\ PageIdle /\ ReportIdle /\ DashIdle

\* the inferencer applied to every text, role and day of the bounds
PfInit ==
    /\ ChatIdle
    /\ BookIdle
    /\ SiteIdle
    /\ pfRole \in Roles
    /\ pfText \in Responses
    /\ pfToday \in Dates
    /\ pfOut = <<>>
    /\ pfDone = FALSE

PfApply ==
    /\ ~pfDone
    /\ pfOut' = parseSuggestedActions(pfText, pfRole, pfToday)
    /\ pfDone' = TRUE
    /\ UNCHANGED <<pfRole, pfText, pfToday>>
    /\ UNCHANGED <<chatVars, bookVars, siteVars>>

PfNext == PfApply

SpecInfer == PfInit /\ [][PfNext]_vars

\* the Chat component, mounted in either role
Init == ChatInit /\ PfIdle /\ BookIdle /\ SiteIdle

Next ==
    \/ \E v \in Inputs : TypeInput(v) /\ UNCHANGED <<pfVars, bookVars, siteVars>>
    \/ handleSubmit /\ UNCHANGED <<pfVars, bookVars, siteVars>>
    \/ \E i \in 1..Len(suggestedActions) : handleQuickAction(i) /\ UNCHANGED <<pfVars, bookVars, siteVars>>
    \/ \E i \in 1..Len(inflight), o \in Outcomes : ReceiveOk(i, o) /\ UNCHANGED <<pfVars, bookVars, siteVars>>
    \/ \E i \in 1..Len(inflight), o \in Outcomes : ReceiveFail(i, o) /\ UNCHANGED <<pfVars, bookVars, siteVars>>
    \/ clearChat /\ UNCHANGED <<pfVars, bookVars, siteVars>>
    \/ \E r \in Roles : RoleChange(r) /\ UNCHANGED <<pfVars, bookVars, siteVars>>
    \/ \E v \in DoctorChoices : SelectDoctor(v) /\ UNCHANGED <<pfVars, bookVars, siteVars>>

Spec == Init /\ [][Next]_vars

\* the fetch of a request in flight settles
FetchSettled ==
    \E i \in 1..Len(inflight), o \in Outcomes :
        (ReceiveOk(i, o) \/ ReceiveFail(i, o)) /\ UNCHANGED <<pfVars, bookVars, siteVars>>

\* the steps of the chat in conversations kept short: a request is sent, or a
\* doctor selected, only below MaxShortMessages turns
ShortNext ==
    \/ \E v \in Inputs : TypeInput(v) /\ UNCHANGED <<pfVars, bookVars, siteVars>>
    \/ Len(messages) < MaxShortMessages /\ handleSubmit /\ UNCHANGED <<pfVars, bookVars, siteVars>>
    \/ \E i \in 1..Len(suggestedActions) :
          Len(messages) < MaxShortMessages /\ handleQuickAction(i) /\ UNCHANGED <<pfVars, bookVars, siteVars>>
    \/ \E i \in 1..Len(inflight), o \in Outcomes : ReceiveOk(i, o) /\ UNCHANGED <<pfVars, bookVars, siteVars>>
    \/ \E i \in 1..Len(inflight), o \in Outcomes : ReceiveFail(i, o) /\ UNCHANGED <<pfVars, bookVars, siteVars>>
    \/ clearChat /\ UNCHANGED <<pfVars, bookVars, siteVars>>
    \/ \E r \in Roles : RoleChange(r) /\ UNCHANGED <<pfVars, bookVars, siteVars>>
    \/ \E v \in DoctorChoices :
          Len(messages) < MaxShortMessages /\ SelectDoctor(v) /\ UNCHANGED <<pfVars, bookVars, siteVars>>

SpecShort == Init /\ [][ShortNext]_vars

\* the short conversations in which every fetch settles
SpecSettles == SpecShort /\ WF_vars(FetchSettled)

\* the appointment tools under concurrent calls
BookInit == BookIdle /\ ChatIdle /\ PfIdle /\ SiteIdle

BookNext ==
    \/ \E c \in 1..NumCalls, slot \in Slots : BookStart(c, slot) /\ UNCHANGED <<pfVars, chatVars, siteVars>>
    \/ \E c \in 1..NumCalls : BookValidate(c) /\ UNCHANGED <<pfVars, chatVars, siteVars>>
    \/ \E c \in 1..NumCalls, st \in NewStatuses : BookInsert(c, st) /\ UNCHANGED <<pfVars, chatVars, siteVars>>
    \/ \E id \in 1..(NumCalls + 1) : CancelAppointment(id) /\ UNCHANGED <<pfVars, chatVars, siteVars>>

SpecBook == BookInit /\ [][BookNext]_vars

\* the Session Store under every order of its three calls
OldIdle == PfIdle /\ ChatIdle /\ BookIdle /\ ReportIdle /\ DashIdle

oldVars == <<pfVars, chatVars, bookVars, reportVars, dashVars>>

StoreInit == StoreIdle /\ OldIdle /\ AppIdle /\ MainIdle /\ PageIdle

StoreNext ==
    \/ \E sid \in SessionIds : StoreCreate(sid) /\ UNCHANGED <<oldVars, appVars, mainVars, pageVars>>
    \/ \E sid \in SessionIds, turn \in Turns : StoreAppend(sid, turn) /\ UNCHANGED <<oldVars, appVars, mainVars, pageVars>>
    \/ \E sid \in SessionIds : StoreGetHistory(sid) /\ UNCHANGED <<oldVars, appVars, mainVars, pageVars>>

SpecStore == StoreInit /\ [][StoreNext]_vars


\* the browser with the application loaded at "/": a fresh profile, or one
\* in which a simple patient login is stored; the build has one of the two
\* sign-in pages
AppInit ==
    /\ OldIdle /\ StoreIdle /\ MainIdle /\ PageIdle
    /\ simpleDoctorAuth = NoAuth
    /\ simplePatientAuth \in BOOLEAN
    /\ clerkUser = SignedOutUser
    /\ pathname = <<>>
    /\ simpleDoctorData = simpleDoctorAuth
    /\ simplePatientData = simplePatientAuth
    /\ signInPage \in LoginPages
    /\ doctorEmail = Empty /\ doctorPassword = Empty /\ doctorError = ""
    /\ loginTimer = NoTimer /\ lastLogin = NoLogin /\ appEvent = "none"

AppNext ==
    \/ \E p \in Paths : LoadPage(p) /\ UNCHANGED <<oldVars, storeVars, mainVars, pageVars>>
    \/ NavigateStep /\ UNCHANGED <<oldVars, storeVars, mainVars, pageVars>>
    \/ AutoRedirect /\ UNCHANGED <<oldVars, storeVars, mainVars, pageVars>>
    \/ \E p \in Paths : PageLink(p) /\ UNCHANGED <<oldVars, storeVars, mainVars, pageVars>>
    \/ \E v \in EmailInputs : setDoctorEmail(v) /\ UNCHANGED <<oldVars, storeVars, mainVars, pageVars>>
    \/ \E v \in PasswordInputs : setDoctorPassword(v) /\ UNCHANGED <<oldVars, storeVars, mainVars, pageVars>>
    \/ handleDoctorLogin /\ UNCHANGED <<oldVars, storeVars, mainVars, pageVars>>
    \/ handleLogin /\ UNCHANGED <<oldVars, storeVars, mainVars, pageVars>>
    \/ LoginTimeout /\ UNCHANGED <<oldVars, storeVars, mainVars, pageVars>>
    \/ Logout /\ UNCHANGED <<oldVars, storeVars, mainVars, pageVars>>
    \/ \E e \in ClerkEmails : ClerkSignIn(e) /\ UNCHANGED <<oldVars, storeVars, mainVars, pageVars>>
    \/ ClerkSignOut /\ UNCHANGED <<oldVars, storeVars, mainVars, pageVars>>

SpecApp == AppInit /\ [][AppNext]_vars

\* MainApp mounted inside <SignedIn>
MainInit == MainIdle /\ OldIdle /\ StoreIdle /\ AppIdle /\ PageIdle

MainNext ==
    \/ \E u \in MainUsers : UserLoaded(u) /\ UNCHANGED <<oldVars, storeVars, appVars, pageVars>>
    \/ \E id \in Roles : onSelectRole(id) /\ UNCHANGED <<oldVars, storeVars, appVars, pageVars>>
    \/ \E h \in Roles \cup {"null"} : setHoveredRole(h) /\ UNCHANGED <<oldVars, storeVars, appVars, pageVars>>
    \/ SwitchRole /\ UNCHANGED <<oldVars, storeVars, appVars, pageVars>>
    \/ \E b \in BOOLEAN : setShowDashboard(b) /\ UNCHANGED <<oldVars, storeVars, appVars, pageVars>>
    \/ MainSignOut /\ UNCHANGED <<oldVars, storeVars, appVars, pageVars>>

SpecMain == MainInit /\ [][MainNext]_vars

\* a doctor page just mounted: its first fetch is in flight
PageInit ==
    /\ OldIdle /\ StoreIdle /\ AppIdle /\ MainIdle
    /\ docPage \in DocPages
    /\ selectedDoctor \in {1, 5}
    /\ pageAppointments = <<>>
    /\ stats = NoStats
    /\ loading = TRUE
    /\ filter = "all"
    /\ clock \in Clocks
    /\ fetches = <<[doctor_id |-> selectedDoctor]>>
    /\ shownFor = 0

PageNext ==
    \/ \E d \in PageDoctors : setSelectedDoctor(d) /\ UNCHANGED <<oldVars, storeVars, appVars, mainVars>>
    \/ \E f \in Filters : setFilter(f) /\ UNCHANGED <<oldVars, storeVars, appVars, mainVars>>
    \/ \E i \in 1..Len(fetches), o \in FetchOutcomes : FetchSettles(i, o) /\ UNCHANGED <<oldVars, storeVars, appVars, mainVars>>

SpecPages == PageInit /\ [][PageNext]_vars

restVars == <<pfVars, chatVars, bookVars, storeVars, appVars, mainVars, pageVars>>

RestIdle == PfIdle /\ ChatIdle /\ BookIdle /\ StoreIdle /\ AppIdle /\ MainIdle /\ PageIdle

\* the reports page mounted, its fetch in flight
ReportInit ==
    /\ RestIdle /\ DashIdle
    /\ reportResponse = <<>>
    /\ reportStats = NoReport
    /\ reportLoading = TRUE

ReportNext ==
    \/ \E r \in NextReasons(reportResponse) :
          AppointmentBooked(r) /\ UNCHANGED <<restVars, dashVars>>
    \/ \E o \in FetchOutcomes : fetchStats(o) /\ UNCHANGED <<restVars, dashVars>>

SpecReports == ReportInit /\ [][ReportNext]_vars

\* DoctorDashboard just mounted: fetchDoctors and fetchStats are in flight
DashInit ==
    /\ RestIdle /\ ReportIdle
    /\ dashSelected = 1
    /\ dashStats = NoDashStats
    /\ dashDoctorsLoaded = FALSE
    /\ dashTimers = <<>>
    /\ dashRequests = <<[doctor_id |-> 1, chosen |-> 0]>>

DashNext ==
    \/ fetchDoctorsSettles /\ UNCHANGED <<restVars, reportVars>>
    \/ \E d \in DashDoctors : dashOnChange(d) /\ UNCHANGED <<restVars, reportVars>>
    \/ dashTimeout /\ UNCHANGED <<restVars, reportVars>>
    \/ \E i \in 1..Len(dashRequests), o \in StatsOutcomes :
          dashStatsSettles(i, o) /\ UNCHANGED <<restVars, reportVars>>

SpecDash == DashInit /\ [][DashNext]_vars

-----------------------------------------------------------------------------
(* Claims about the inferencer, checked under SpecInfer *)

pfContent == pfText.val

pfTomorrow == setDate(pfToday, pfToday.day + 1)

pfDayAfter == setDate(pfToday, pfToday.day + 2)

\* C1 (as claimed): the result is that of the first matching rule in the
\* order date, time/slot, confirmation, which-doctor, role-is-doctor, empty;
\* stated here for the texts that are not empty.
C1_DeclaredOrder ==
    (pfDone /\ Truthy(pfText)) =>
        pfOut = IF AsksDate(pfContent) THEN DateLabels(pfToday)
                ELSE IF AsksTime(pfContent) THEN TimeChips(pfContent)
                ELSE IF AsksConfirm(pfContent) THEN ConfirmChips
                ELSE IF AsksDoctor(pfContent) THEN DoctorChips
                ELSE IF pfRole = "doctor" THEN DoctorMenu
                ELSE <<>>

\* C1 (amended): for a non-empty text in doctor role the result is the doctor
\* menu whatever the text asks; in patient role a rule's result is returned
\* exactly when it matches and no earlier rule of the order date, time/slot,
\* confirmation, which-doctor does, and the result is empty when none matches.
C1_FirstMatchWins ==
    pfDone =>
        /\ (pfRole = "doctor" /\ Truthy(pfText)) => pfOut = DoctorMenu
        /\ pfRole = "patient" =>
            /\ AsksDate(pfContent) => pfOut = DateLabels(pfToday)
            /\ (~AsksDate(pfContent) /\ AsksTime(pfContent))
                   => pfOut = TimeChips(pfContent)
            /\ (~AsksDate(pfContent) /\ ~AsksTime(pfContent) /\ AsksConfirm(pfContent))
                   => pfOut = ConfirmChips
            /\ (~AsksDate(pfContent) /\ ~AsksTime(pfContent) /\ ~AsksConfirm(pfContent)
                   /\ AsksDoctor(pfContent))
                   => pfOut = DoctorChips
            /\ (~AsksDate(pfContent) /\ ~AsksTime(pfContent) /\ ~AsksConfirm(pfContent)
                   /\ ~AsksDoctor(pfContent))
                   => pfOut = <<>>

\* a patient text that asks for a date and for a confirmation got the dates
C1_Witness ==
    /\ pfDone /\ pfRole = "patient"
    /\ AsksDate(pfContent) /\ AsksConfirm(pfContent)
    /\ pfOut = DateLabels(pfToday)
    /\ pfOut # ConfirmChips

\* C2: in patient role a text that asks for a date yields exactly the labels
\* of the next two calendar days (tomorrow, the day after), in that order.
C2_NextTwoDayLabels ==
    (pfDone /\ pfRole = "patient" /\ AsksDate(pfContent)) =>
        pfOut = << "Tomorrow (" \o formatDate(pfTomorrow) \o ")",
                   formatDate(pfDayAfter) >>

\* C7: in doctor role the result is the doctor quick-menu for every text,
\* the empty and the missing text included.
C7_DoctorAlwaysMenu ==
    (pfDone /\ pfRole = "doctor") => pfOut = DoctorMenu

\* the text of a time token as it stands in the assistant text
LiteralTime(tok) ==
    ToString(tok.hour) \o ":" \o tok.minute
        \o (IF Meridiem(tok) = "" THEN "" ELSE " " \o tok.suffix)

TimeToks(text) == SelectSeq(text, IsTimeTok)

FirstIndex(seq, x) == CHOOSE i \in 1..Len(seq) : seq[i] = x /\ \A j \in 1..(i - 1) : seq[j] # x

\* seq lists each element of src once, in the order of first appearance in src
DistinctInOrder(seq, src) ==
    /\ \A i \in 1..Len(seq) : InSeq(seq[i], src)
    /\ \A i \in 1..Len(src) : InSeq(src[i], seq)
    /\ \A i, j \in 1..Len(seq) :
           i < j => FirstIndex(src, seq[i]) < FirstIndex(src, seq[j])

pfAsksTimeOnly == pfDone /\ pfRole = "patient" /\ ~AsksDate(pfContent) /\ AsksTime(pfContent)

\* C8 (as claimed): the chips are the time tokens literally present in the
\* text, each distinct one once in order of first appearance, or the default
\* slots when the text has none.
C8_LiteralTokens ==
    pfAsksTimeOnly =>
        LET toks == TimeToks(pfContent)
            lits == [i \in 1..Len(toks) |-> LiteralTime(toks[i])]
        IN  IF Len(toks) = 0 THEN pfOut = DefaultSlots
            ELSE DistinctInOrder(pfOut, lits)

\* C8 (amended): the chips are the time tokens of the text converted to
\* 12-hour form "h:mm AM|PM" (a token with an AM/PM suffix keeps its hour and
\* gets the suffix in upper case; a token without one gets PM from hour 12 on
\* and AM below, with 13..23 reduced by 12 and 0 written 12), each distinct
\* chip once in order of first appearance; the default slots when the text
\* has no time token.
C8_ConvertedTokens ==
    pfAsksTimeOnly =>
        LET toks == TimeToks(pfContent)
            chips == [i \in 1..Len(toks) |-> SlotLabel(SlotOfMatch(toks[i]))]
        IN  IF Len(toks) = 0 THEN pfOut = DefaultSlots
            ELSE DistinctInOrder(pfOut, chips)

\* a text with 14:00 and 2:00 PM got the single chip 2:00 PM
C8_Witness ==
    /\ pfAsksTimeOnly
    /\ InSeq(T(14, "00", ""), pfContent) /\ InSeq(T(2, "00", "PM"), pfContent)
    /\ pfOut = <<"2:00 PM">>

\* C9: in patient role a text that asks which doctor (and matches no earlier
\* rule) yields one suggestion for each doctor of the roster.
C9_WholeRoster ==
    (pfDone /\ pfRole = "patient" /\ AsksDoctor(pfContent)
        /\ ~AsksDate(pfContent) /\ ~AsksTime(pfContent) /\ ~AsksConfirm(pfContent)) =>
        /\ Len(pfOut) = Len(doctors)
        /\ \A i \in 1..Len(doctors) : InSeq(doctors[i].display, pfOut)

-----------------------------------------------------------------------------
(* Claims about the Chat component, checked under Spec *)

Last(seq) == seq[Len(seq)]

Settled(kind) == Len(inflight') < Len(inflight) /\ lastEvent'.kind = kind

\* C3: no assistant turn on screen is empty or blank, and the turn of a
\* successful reply without content is the fixed still-processing message.
C3_NoBlankTurn ==
    /\ \A i \in 1..Len(messages) :
          (messages[i].role = "assistant" /\ Shown(messages[i]))
              => \E k \in 1..Len(messages[i].content) : ~IsSpace(messages[i].content[k])
    /\ (lastEvent.kind = "ok" /\ ~lastEvent.outcome.hasContent)
          => /\ messages # <<>>
             /\ Last(messages) = [role |-> "assistant", content |-> FallbackText]
             /\ Shown(Last(messages))

\* a reply without content has just been turned into the fixed message
C3_Witness ==
    /\ lastEvent.kind = "ok" /\ ~lastEvent.outcome.hasContent
    /\ messages # <<>>
    /\ Last(messages).content = FallbackText

\* C5: a request carries the session id of the last successful response of
\* the conversation, null when there has been none, and the settling of a
\* failed request leaves the held session id as it was.
C5_SessionThreading ==
    [][ /\ (Len(inflight') > Len(inflight))
            => Last(inflight').session_id = lastOkSession
        /\ Settled("fail") => sessionId' = sessionId ]_vars

\* a second request, sent with the id the first one got, has failed
C5_Witness ==
    /\ lastEvent.kind = "fail"
    /\ Len(messages) = 4
    /\ sessionId \in SessionIds
    /\ sessionId = lastOkSession

TellsRetry(content) ==
    InSeq(W("Try again."), content) \/ InSeq(W(" then try again."), content)

NamesCause(content, o) ==
    IF o.kind = "reject" \/ (o.kind = "status" /\ ~o.bodyReadable)
    THEN InSeq(W("Can't connect to the server."), content)
    ELSE IF o.kind = "status"
    THEN InSeq(W("Backend returned " \o ToString(o.status)), content)
    ELSE \E i \in 1..Len(content) :
            content[i].s = "Unexpected token < in JSON at position 0"

\* C6: the settling of a failed request appends exactly one turn, an
\* assistant turn that opens with the error label, tells the user to try
\* again and names the cause: the unreachable server for a network failure,
\* the status or the error otherwise.
C6_FailureTurn ==
    [][ Settled("fail") =>
          /\ Len(messages') = Len(messages) + 1
          /\ SubSeq(messages', 1, Len(messages)) = messages
          /\ Last(messages').role = "assistant"
          /\ Last(messages').content[1] = W(ErrorLabel)
          /\ TellsRetry(Last(messages').content)
          /\ NamesCause(Last(messages').content, lastEvent'.outcome) ]_vars

\* a request answered with status 500 has got its error turn
C6_Witness ==
    /\ lastEvent.kind = "fail" /\ lastEvent.outcome.kind = "status"
    /\ lastEvent.outcome.bodyReadable
    /\ messages # <<>>
    /\ InSeq(W("Backend returned 500"), Last(messages).content)

RosterIds == {doctors[i].id : i \in 1..Len(doctors)}

\* C17: every /chat request carries as doctor_id the doctor selected in the
\* "Viewing as" dropdown when it was sent, and the doctor_id of every
\* request is null (nothing selected) or the id of a doctor of the roster.
C17_DoctorIdSent ==
    /\ lastEvent.kind = "send" => Last(inflight).doctor_id = selectedDoctorId
    /\ \A i \in 1..Len(inflight) :
          inflight[i].doctor_id.isNull \/ inflight[i].doctor_id.n \in RosterIds

-----------------------------------------------------------------------------
(* Claims about the appointment tools, checked under SpecBook *)

LiveRows(slot) ==
    { i \in 1..Len(appointments) :
        SlotOf(appointments[i]) = slot /\ appointments[i].status # "cancelled" }

RowsOf(slot) == { i \in 1..Len(appointments) : SlotOf(appointments[i]) = slot }

DoneFor(slot) == { c \in 1..NumCalls : calls[c].pc = "done" /\ calls[c].slot = slot }

\* C4: no slot has two non-cancelled appointments, and once all the calls
\* are done, those for one slot (none of whose rows was cancelled meanwhile)
\* created exactly one row: one call succeeded, every other got SlotTaken.
C4_OneWinner ==
    \A slot \in Slots :
        /\ Cardinality(LiveRows(slot)) <= 1
        /\ (Cardinality(DoneFor(slot)) = NumCalls /\ RowsOf(slot) = LiveRows(slot))
              => /\ Cardinality(RowsOf(slot)) = 1
                 /\ Cardinality({ c \in DoneFor(slot) : calls[c].result = "ok" }) = 1
                 /\ \A c \in DoneFor(slot) : calls[c].result \in {"ok", "SlotTaken"}

\* two calls for one slot both passed the re-validation, and the insert of
\* the second was refused
C4_Witness ==
    \E slot \in Slots :
        /\ Cardinality(DoneFor(slot)) = NumCalls
        /\ Cardinality(RowsOf(slot)) = 1
        /\ \E c \in DoneFor(slot) : calls[c].result = "SlotTaken"
        /\ lastCancel.result = "none"

\* C10: a cancelled appointment stays cancelled, the only change of status
\* is from pending or confirmed to cancelled, and a CancelAppointment on a
\* cancelled appointment leaves it cancelled.
C10_CancelOneWay ==
    [][ /\ Len(appointments') >= Len(appointments)
        /\ \A i \in 1..Len(appointments) :
              /\ appointments[i].status = "cancelled"
                    => appointments'[i].status = "cancelled"
              /\ appointments'[i].status # appointments[i].status
                    => /\ appointments[i].status \in {"pending", "confirmed"}
                       /\ appointments'[i].status = "cancelled" ]_vars

\* a second CancelAppointment on the same id has been answered
C10_Witness ==
    /\ lastCancel.result = "AlreadyCancelled"
    /\ appointments[lastCancel.id].status = "cancelled"

-----------------------------------------------------------------------------
(* Claims about the Session Store, checked under SpecStore *)

RECURSIVE TurnsLogged(_, _)
\* the turns appended to session sid, in the order of the append calls
TurnsLogged(log, sid) ==
    IF log = <<>> THEN <<>>
    ELSE IF log[1].sid = sid
         THEN <<log[1].turn>> \o TurnsLogged(Tail(log), sid)
         ELSE TurnsLogged(Tail(log), sid)

\* C11: reading the history of a session returns exactly the turns that
\* were appended to that session, in the order they were appended, and no
\* turn appended to another session.
C11_RoundTrip ==
    (storeLast.op = "get_history" /\ storeLast.result = "ok")
        => storeLast.history = TurnsLogged(appendLog, storeLast.sid)

\* a history of two different turns is read while the other session holds
\* a turn appended between them
C11_Witness ==
    /\ storeLast.op = "get_history"
    /\ Len(storeLast.history) = 2
    /\ storeLast.history[1] # storeLast.history[2]
    /\ Len(appendLog) = 3
    /\ appendLog[2].sid # storeLast.sid

-----------------------------------------------------------------------------
(* Claims about the App router and the doctor login, checked under SpecApp *)

DoctorPages ==
    {"DoctorDashboardPage", "DoctorAppointmentsPage", "DoctorReportsPage",
     "DoctorChatPage", "SimpleDoctorChatPage"}

DoctorAllowList ==
    {"doctor12345@gmail.com", "adonimohit@gmail.com", "doctor@clinic.com",
     "momoochan.ofc@gmail.com"}

ClerkAllowed == clerkUser.signedIn /\ clerkUser.email \in DoctorAllowList

RECURSIVE Settled12(_, _)
\* what is on screen once the <Navigate>s rendered from pathname p have run,
\* following at most n of them
Settled12(p, n) ==
    IF AppRoutes(p).kind = "navigate" /\ n > 0
    THEN Settled12(AppRoutes(p).to, n - 1)
    ELSE AppRoutes(p)

ClerkRouted == ~simpleDoctorData.present /\ ~simplePatientData

\* C12: a doctor page is on screen only if localStorage holds a
\* simpleDoctorAuth record or the user signed in with Clerk has an
\* allow-listed email; at the doctor addresses a signed-in user who is not
\* allow-listed ends on the patient page and a signed-out visitor on the
\* sign-in page.
C12_DoctorPagesGuarded ==
    /\ Rendered.page \in DoctorPages => (simpleDoctorAuth.present \/ ClerkAllowed)
    /\ \A p \in Paths :
          (ClerkRouted /\ p # <<>> /\ p[1] = "doctor") =>
              /\ (clerkUser.signedIn /\ ~ClerkAllowed)
                    => Settled12(p, 2) = PageOf("PatientPage", 0)
              /\ ~clerkUser.signedIn
                    => Settled12(p, 2) = PageOf(signInPage, 0)

\* a user signed in with Clerk who is not allow-listed stands at a doctor
\* address after a simple doctor has logged in and out in this browser
C12_Witness ==
    /\ ClerkRouted /\ clerkUser.signedIn /\ ~ClerkAllowed
    /\ pathname = <<"doctor", "doctor", "dashboard">>
    /\ appEvent = "load" /\ lastLogin.kind = "ok"

\* the doctor configured for a typed email by the sign-in page of the build
\* (UnifiedLoginPage compares the email trimmed and in lower case and the
\* password trimmed; SimpleDoctorLogin compares both letter for letter)
ConfiguredEmail(e) ==
    IF signInPage = "UnifiedLoginPage"
    THEN e.base \in DOMAIN validDoctors
    ELSE e.base \in DOMAIN DOCTOR_CREDENTIALS /\ ~e.pad /\ ~e.caps

ConfiguredPassword(e, p) ==
    IF signInPage = "UnifiedLoginPage"
    THEN p.base = "password" /\ ~p.caps
    ELSE p = Typed("doctor", FALSE, FALSE)

ConfiguredId(e) ==
    IF signInPage = "UnifiedLoginPage"
    THEN validDoctors[e.base].id
    ELSE DOCTOR_CREDENTIALS[e.base].doctorId

ConfiguredName(e) ==
    IF signInPage = "UnifiedLoginPage"
    THEN validDoctors[e.base].name
    ELSE DOCTOR_CREDENTIALS[e.base].name

\* the email and password of the login submit that a step settles
Entered == IF signInPage = "UnifiedLoginPage"
           THEN [email |-> doctorEmail, password |-> doctorPassword]
           ELSE [email |-> loginTimer.email, password |-> loginTimer.password]

\* C13: a step writes a simpleDoctorAuth record to localStorage only if it
\* settles a login submit whose email is a configured doctor email and whose
\* password is the configured password, and the record holds the doctorId
\* and the name configured for that email.
C13_WrittenOnlyByLogin ==
    [][(simpleDoctorAuth' # simpleDoctorAuth /\ simpleDoctorAuth'.present) =>
          /\ appEvent' \in {"submit", "timeout"}
          /\ ConfiguredEmail(Entered.email)
          /\ ConfiguredPassword(Entered.email, Entered.password)
          /\ simpleDoctorAuth'.doctorId = ConfiguredId(Entered.email)
          /\ simpleDoctorAuth'.name = ConfiguredName(Entered.email)]_vars

\* a record is stored for an email typed with capitals and blanks around it
C13_Witness ==
    /\ simpleDoctorAuth.present
    /\ lastLogin.kind = "ok" /\ lastLogin.email.caps /\ lastLogin.email.pad
    /\ simpleDoctorAuth.email = "doctor@clinic.com"
    /\ simpleDoctorAuth.doctorId = 5

\* a step that settles a login submit: the submit of UnifiedLoginPage, the
\* timer of SimpleDoctorLogin
SettlesLogin ==
    \/ signInPage = "UnifiedLoginPage" /\ appEvent' = "submit"
    \/ signInPage = "SignInPage" /\ appEvent' = "timeout"

\* C14: a login submit with an unknown email or a wrong password sets an
\* error message, leaves localStorage as it was and does not navigate; the
\* submit of SimpleDoctorLogin clears the error of the previous submit before
\* the check runs, and the error after a check is that of this check.
C14_FailedLogin ==
    [][/\ (SettlesLogin /\ ~(ConfiguredEmail(Entered.email)
                             /\ ConfiguredPassword(Entered.email, Entered.password)))
            => /\ doctorError' # ""
               /\ simpleDoctorAuth' = simpleDoctorAuth
               /\ pathname' = pathname
               /\ simpleDoctorData' = simpleDoctorData
       /\ (SettlesLogin /\ ConfiguredEmail(Entered.email)
                        /\ ConfiguredPassword(Entered.email, Entered.password))
            => doctorError' = ""
       /\ (signInPage = "SignInPage" /\ appEvent' = "submit") => doctorError' = ""]_vars

\* a submit with a configured email and a wrong password has failed and
\* nothing is stored; the next submit has cleared the error and its check
\* is pending
C14_Witness ==
    /\ lastLogin.kind = "failed"
    /\ lastLogin.email = Typed("doctor12345@gmail.com", FALSE, FALSE)
    /\ lastLogin.password # Typed("doctor", FALSE, FALSE)
    /\ loginTimer.pending
    /\ doctorError = ""
    /\ ~simpleDoctorAuth.present
    /\ pathname = <<"sign-in">>

\* the doctor a personal account is linked to
LinkedDoctorId(userEmail) ==
    IF userEmail = "doctor12345@gmail.com" THEN 1
    ELSE IF userEmail = "adonimohit@gmail.com" THEN 5
    ELSE 0

\* C16: a doctor signed in with Clerk under a linked personal account is
\* shown the dashboard of the linked doctor: doctor12345@gmail.com that of
\* doctor 1, adonimohit@gmail.com that of doctor 5.
C16_LinkedDoctorDashboard ==
    (ClerkRouted /\ Rendered.page = "DoctorDashboardPage"
                 /\ LinkedDoctorId(clerkUser.email) # 0)
        => Rendered.doctorId = LinkedDoctorId(clerkUser.email)

-----------------------------------------------------------------------------
(* Claims about MainApp, checked under SpecMain *)

\* C15: the role of MainApp is 'doctor' only for a signed-in user whose
\* email is the one authorized for doctor mode; for every other user the
\* doctor card is disabled and the role never becomes 'doctor'.
C15_DoctorRoleAuthorized ==
    /\ mainRole = "doctor" => (mainUser.loaded /\ mainUser.email = DOCTOR_EMAIL)
    /\ mainUser.email # DOCTOR_EMAIL => ~RoleEnabled("doctor", mainUser.email)

-----------------------------------------------------------------------------
(* Claims about the doctor pages, checked under SpecPages *)

\* C18: whenever no fetch is in flight, the appointments on screen (and the
\* stats made from them) are those returned for the doctor now selected in
\* the dropdown, whatever the order of selections and responses and also
\* when responses fail.
C18_ShowsSelectedDoctor ==
    (fetches = <<>> /\ shownFor # 0) =>
        /\ shownFor = selectedDoctor
        /\ pageAppointments \in {ServerAppointments(selectedDoctor), <<>>}

\* the rows among those fetched that a filter is to show, today being the
\* date on the user's calendar
DatedFor(f, apt) ==
    CASE f = "upcoming" -> IsoLess(clock.date, apt.appointment_date)
      [] f = "today" -> apt.appointment_date = clock.date
      [] f = "past" -> IsoLess(apt.appointment_date, clock.date)
      [] OTHER -> TRUE

\* C19: on the appointments page 'upcoming' lists exactly the fetched
\* appointments dated after today, 'today' exactly those dated today,
\* 'past' exactly those dated before today and 'all' every one.
C19_FiltersByDate ==
    docPage = "appointments" =>
        filterAppointments = SelectSeq(pageAppointments, LAMBDA apt : DatedFor(filter, apt))

InWeekOf(d, day) ==
    /\ ~IsoLess(d, setDate(day, day.day - getDay(day)))
    /\ IsoLess(d, setDate(day, day.day - getDay(day) + 7))

CountRows(P(_)) == Cardinality({i \in 1..Len(pageAppointments) : P(pageAppointments[i])})

\* C20: on the dashboard, once a response has filled the cards, "This Week"
\* is the number of the fetched appointments dated in the current week
\* (Sunday to Saturday), "Today's Appointments" the number dated today and
\* "Total Appointments" the number of all of them.
C20_DashboardCards ==
    (docPage = "dashboard" /\ shownFor # 0) =>
        /\ stats.thisWeek = CountRows(LAMBDA apt : InWeekOf(apt.appointment_date, clock.date))
        /\ stats.today = CountRows(LAMBDA apt : apt.appointment_date = clock.date)
        /\ stats.total = Len(pageAppointments)

-----------------------------------------------------------------------------
(* Claim about the clock times of extractTimeSlots (checked under SpecInfer) *)

\* the hour of the day, 0..23, a time token denotes
HourOfDay(tok) ==
    CASE Meridiem(tok) = "" -> tok.hour
      [] toUpperCase(Meridiem(tok)) = "PM" /\ tok.hour < 12 -> tok.hour + 12
      [] toUpperCase(Meridiem(tok)) = "AM" /\ tok.hour = 12 -> 0
      [] OTHER -> tok.hour

\* the 12-hour clock time "h:mm AM|PM" of an hour of the day and a minute
ClockLabel(hour24, minute) ==
    ToString(IF hour24 % 12 = 0 THEN 12 ELSE hour24 % 12) \o ":" \o minute \o " "
        \o (IF hour24 >= 12 THEN "PM" ELSE "AM")

-----------------------------------------------------------------------------
(* Claim about the Top Visit Reasons of the reports page (checked under SpecReports) *)

\* the number of rows of the response counted under a reason
RowsWithReason(reason) ==
    Cardinality({i \in 1..Len(reportResponse) :
                    IF reason = "Not specified"
                    THEN reportResponse[i].reason \in {"", "Not specified"}
                    ELSE reportResponse[i].reason = reason})

AllReasonsSeq == Append(OrdinaryReasons, "Not specified")

AllReasons == { AllReasonsSeq[k] : k \in 1..Len(AllReasonsSeq) }

RECURSIVE SumCounts(_)
SumCounts(entries) ==
    IF entries = <<>> THEN 0 ELSE Head(entries).count + SumCounts(Tail(entries))

reportShown == ~reportStats.isNull /\ reportStats.total = Len(reportResponse)

\* C21: the Top Visit Reasons are at most five reasons, each once with its
\* number of appointments (those without a reason under 'Not specified'),
\* in order of non-increasing count; every listed reason has a count at least
\* that of any reason left out; the counts of all reasons sum to the total.
C21_TopReasons ==
    reportShown =>
        LET top == reportStats.topReasons
            listed == { top[i].reason : i \in 1..Len(top) }
            leftOut == { r \in AllReasons \ listed : RowsWithReason(r) > 0 }
        IN  /\ Len(top) <= 5
            /\ \A i \in 1..Len(top) :
                  /\ top[i].reason \in AllReasons
                  /\ top[i].count = RowsWithReason(top[i].reason)
                  /\ top[i].count > 0
            /\ \A i, j \in 1..Len(top) : i < j =>
                  top[i].count >= top[j].count /\ top[i].reason # top[j].reason
            /\ \A i \in 1..Len(top), r \in leftOut : top[i].count >= RowsWithReason(r)
            /\ leftOut # {} => Len(top) = 5
            /\ SumCounts([k \in 1..Len(AllReasonsSeq) |->
                             [count |-> RowsWithReason(AllReasonsSeq[k])]])
                  = reportStats.total

\* six reasons in seven rows, two of them without a reason: five are listed,
\* 'Not specified' with 2 first, and one reason with a single row is left out
C21_Witness ==
    /\ reportShown
    /\ Len(reportResponse) = 7
    /\ Len(reportStats.topReasons) = 5
    /\ reportStats.topReasons[1] = [reason |-> "Not specified", count |-> 2]
    /\ \E i \in 1..7 : reportResponse[i].reason = ""
    /\ \E r \in AllReasons :
          /\ RowsWithReason(r) = 1
          /\ \A i \in 1..5 : reportStats.topReasons[i].reason # r

-----------------------------------------------------------------------------
(* Claim about the doctor dropdown of DoctorDashboard (checked under SpecDash) *)

\* C24: the stats request that a change of the doctor dropdown to doctor d
\* schedules is issued for doctor d.
C24_RequestForChosenDoctor ==
    \A i \in 1..Len(dashRequests) :
        dashRequests[i].chosen # 0 => dashRequests[i].doctor_id = dashRequests[i].chosen

-----------------------------------------------------------------------------
(* Claim about "Switch Role" of MainApp (checked under SpecMain) *)

\* C25: after "Switch Role" the role is null, so that the role selector is
\* shown, and the role stays null until the user picks a role: for the same
\* user it changes from null only by a click on a role card.
C25_SelectorUntilChoice ==
    [][ /\ mainEvent' = "switch" => mainRole' = "null"
        /\ (mainRole = "null" /\ mainRole' # "null" /\ mainUser' = mainUser)
              => mainEvent' = "select" ]_vars

-----------------------------------------------------------------------------
(* Claims about the requests of the Chat component (checked under Spec and SpecShort) *)

\* the chips on the screen: suggestedActions.length > 0 && !isLoading
ChipsShown == IF isLoading THEN <<>> ELSE suggestedActions

HasUserTurn == \E k \in 1..Len(messages) : messages[k].role = "user"

\* a request has completed in this step
Completed == Len(inflight') < Len(inflight)

\* after a 2xx reply the chips shown are the reply's suggested_actions when
\* that list has entries, else the inferencer's result for the reply's text;
\* while a request is in flight no chips are shown
RepliesAndFlight ==
    /\ (Completed /\ lastEvent'.kind = "ok") =>
          \A i \in 1..Len(inflight), o \in Outcomes :
              (o.data.session_id = sessionId' /\ ReceiveOk(i, o)) =>
                  ChipsShown' =
                     IF o.data.suggested_actions.def /\ o.data.suggested_actions.val # <<>>
                     THEN o.data.suggested_actions.val
                     ELSE parseSuggestedActions(o.data.response, inflight[i].role, now)
    /\ inflight' # <<>> => ChipsShown' = <<>>

C23_ClearIsFreshLoad ==
    lastEvent.kind = "clear" =>
        /\ messages = <<>>
        /\ sessionId = NullSession
        /\ storedSession = NullSession
        /\ suggestedActions = LoadChips(role)

\* C26: at most one /chat request is in flight at any time: while isLoading
\* is true no step starts another request.
C26_OneRequestInFlight ==
    /\ Len(inflight) <= 1
    /\ isLoading = (inflight # <<>>)
    /\ isLoading => ~ENABLED handleSubmit
    /\ isLoading => \A i \in 1..Len(suggestedActions) : ~ENABLED handleQuickAction(i)

\* a request is in flight while the chat, cleared in the meantime, holds
\* chips that are not shown
C26_Witness ==
    /\ isLoading
    /\ Len(inflight) = 1
    /\ suggestedActions # <<>>
    /\ messages = <<>>

\* C27: when clearChat was called or the role changed while a request was
\* in flight (the user turn of the request is gone), the completion of the
\* request leaves the session id null, writes no chat_session_id and appends
\* no turn of the discarded conversation, so that the next request is sent
\* with session_id null.
C27_ResetNotUndone ==
    [][ (Completed /\ ~HasUserTurn) =>
            /\ sessionId' = NullSession
            /\ storedSession' = storedSession
            /\ messages' = messages ]_vars

\* C29: a sendMessage appends exactly one user turn, with the text sent,
\* when the request is issued, and exactly one assistant turn when the
\* request completes; both only append, so the turns before them stay as
\* they were and in their order.
C29_TurnsAppended ==
    [][ /\ Len(inflight') > Len(inflight) =>
              messages' = Append(messages,
                                 [role |-> "user",
                                  content |-> <<W(inflight'[Len(inflight')].message)>>])
        /\ Completed =>
              /\ Len(messages') = Len(messages) + 1
              /\ SubSeq(messages', 1, Len(messages)) = messages
              /\ messages'[Len(messages')].role = "assistant" ]_vars

\* two requests were sent and completed, the second one with an error: the
\* turns are user, assistant, user, assistant
C29_Witness ==
    /\ lastEvent.kind = "fail"
    /\ Len(messages) = 4
    /\ \A k \in 1..4 : messages[k].role = IF k % 2 = 1 THEN "user" ELSE "assistant"
    /\ messages[4].content[1] = W(ErrorLabel)

-----------------------------------------------------------------------------
(* Claim about the end of a request (checked under SpecSettles) *)

\* C28: provided the fetch settles, every sendMessage eventually leaves
\* isLoading false, on the 2xx path, the non-2xx path and the exception
\* paths.
C28_LoadingEnds == isLoading ~> ~isLoading

\* a request ended with a body that is not JSON and isLoading is false
C28_Witness ==
    /\ ~isLoading
    /\ inflight = <<>>
    /\ lastEvent.kind = "fail"
    /\ lastEvent.outcome.kind = "badjson"

====
